---------------------------- MODULE Spec2Model ----------------------------
(***************************************************************************)
(* A model of the daily puzzle solvers of advent-of-code-2025.  Every      *)
(* solver is a closed, single-threaded algorithm; each one is modelled by  *)
(* its own specification (SpecDial, SpecDay01, ...) over its own           *)
(* variables, the variables of the other solvers staying idle.             *)
(***************************************************************************)
EXTENDS Integers, Sequences, FiniteSets, TLC

VARIABLES
    \* day01.rs, solve_day01
    input,                      \* the non-empty lines of the input
    part,                       \* Part::One / Part::Two
    line_idx,                   \* lines consumed by the for loop
    dial_position,
    final_pos_zero_hit_count,
    total_zero_hit_count,
    result01,                   \* Ok(n) / Err(InvalidInput(line))
    pc01,
    \* day01.rs, the last call of turn_dial
    start_pos, direction, distance, final_pos, zero_hits,
    \* day10.rs, min_presses_to_target_state
    machine,                    \* [bulb_count, target_state, buttons]
    explored_states,
    queue,                      \* VecDeque of <<round_num, state>>
    result10,                   \* the returned count as a set, {} before the return
    pc10,
    \* day05.rs, sort_and_merge_ranges
    ranges_in,                  \* the input slice
    sorted_ranges,              \* the sorted iterator
    fold_idx,                   \* elements the fold has consumed
    output,                     \* the fold's accumulator
    pc05,
    \* day08.rs, connect_junction_box
    coords,                     \* the junction boxes
    circuits,                   \* Vec<HashSet<&Coords3D>>
    box_a, box_b,               \* the arguments of the last call
    pc08,
    \* day02.rs, is_invalid_part_one / is_invalid_part_two
    number,
    invalid_part_one,           \* the value is_invalid_part_one returned
    invalid_part_two,           \* the value is_invalid_part_two returned
    pc02,
    \* day09.rs, find_largest_red_and_green_rect_area
    red_tiles,                  \* coords: the red tiles, in input order
    compressed_coords,          \* CompressedCoords2D
    grid,                       \* Grid<Cell>: [rows, cols, cells]
    start_coords,               \* what find_first_inside_point returned
    coords_to_fill,             \* the stack of fill_green_tiles
    result09,
    pc09,
    \* day01.rs, turn_dial called twice: a turn to the left and the turn back
    trip_start,                 \* start_pos of the first call
    trip_distance,              \* distance of both calls
    trip_left,                  \* what turn_dial(.., Left, ..) returned
    trip_right,                 \* what turn_dial(.., Right, ..) returned
    pc_trip,
    \* day08.rs, build_edge_length_map
    edge_coords,                \* coords: the junction boxes
    edge_map,                   \* line_to_length_map: entries [key, value]
    edge_idx,                   \* pairs of iproduct!(coords, coords) consumed
    pc_edge,
    \* coords/compressed_coords_2d.rs, from_coords and to_original
    cc_input,                   \* coords: the argument of from_coords
    cc_compressed,              \* the CompressedCoords2D it returned
    cc_query,                   \* the argument of to_original
    cc_original,                \* the Option it returned
    pc_cc,
    \* grid.rs, parse_string_to_grid
    grid_input,                 \* input.lines(): the lines of the input
    grid_result,                \* Ok(grid) / Err(message)
    pc_grid,
    \* bin/dayNN.rs, main, and day10.rs, solve_day10
    main_day,                   \* the binary: 1 .. 10
    part_1_solution,            \* Option: set once solve_dayNN(.., Part::One) returned
    part_2_solution,
    stdout,                     \* the lines printed so far
    solve10_part,               \* the part argument of a call of solve_day10
    solve10_result,             \* Option: what that call returned
    pc_main,
    \* day03.rs, largest_joltage
    row03,                      \* row: the digits of the row
    target_num,
    digit_indexes,              \* Vec<usize>: the selected indexes
    pointer,
    result03,                   \* Option: the number returned
    pc03,
    \* day04.rs, remove_accessible_rolls
    initial_grid,               \* the caller's grid
    max_rounds,                 \* Option<usize>
    grid04,                     \* grid: the clone the loop works on
    round04,                    \* round
    removed_rolls_counts,
    pc04,
    \* day07.rs, shoot_beam_and_count_splits and count_beam_possible_paths
    input_grid,                 \* the grid as parsed
    cell_grid,                  \* the grid the ticks update in place
    tick_row,                   \* row_idx of the next call of next_tick
    total_splits,
    possible_paths,             \* Option: what count_beam_possible_paths returned
    pc07,
    \* day08.rs, connect_junction_boxes
    cjb_coords,                 \* coords: the junction boxes
    cjb_rounds,                 \* rounds
    shortest_edges,             \* the sorted entries of edge_length_map, `rounds` at most
    cjb_circuits,               \* circuits
    cjb_idx,                    \* entries of shortest_edges the for loop has taken
    final_line,                 \* Option<Line3D>
    pc_cjb,
    \* day09.rs, the grid functions called on a grid of their own
    tile_coords,                \* red tiles traced by connect_red_tiles
    tile_grid,                  \* the Grid<Cell> argument
    tile_before,                \* the grid when fill_green_tiles was called
    tile_a,                     \* first Coords2D argument (a, start), {} when none
    tile_b,                     \* second Coords2D argument (b), {} when none
    tile_to_fill,               \* coords_to_fill of fill_green_tiles
    tile_result,                \* the returned value as a set, {} before the return
    pc_tile                     \* position in the call

day01vars == <<input, part, line_idx, dial_position, final_pos_zero_hit_count,
               total_zero_hit_count, result01, pc01,
               start_pos, direction, distance, final_pos, zero_hits>>

day10vars == <<machine, explored_states, queue, result10, pc10>>

day05vars == <<ranges_in, sorted_ranges, fold_idx, output, pc05>>

day08vars == <<coords, circuits, box_a, box_b, pc08>>

day02vars == <<number, invalid_part_one, invalid_part_two, pc02>>

day09vars == <<red_tiles, compressed_coords, grid, start_coords, coords_to_fill,
               result09, pc09>>

tripvars == <<trip_start, trip_distance, trip_left, trip_right, pc_trip>>

\* The variables of the specifications of single functions.
edgevars == <<edge_coords, edge_map, edge_idx, pc_edge>>

ccvars == <<cc_input, cc_compressed, cc_query, cc_original, pc_cc>>

gridvars == <<grid_input, grid_result, pc_grid>>

mainvars == <<main_day, part_1_solution, part_2_solution, stdout,
              solve10_part, solve10_result, pc_main>>

day03vars == <<row03, target_num, digit_indexes, pointer, result03, pc03>>

day04vars == <<initial_grid, max_rounds, grid04, round04, removed_rolls_counts, pc04>>

day07vars == <<input_grid, cell_grid, tick_row, total_splits, possible_paths, pc07>>

cjbvars == <<cjb_coords, cjb_rounds, shortest_edges, cjb_circuits, cjb_idx, final_line, pc_cjb>>

tilevars == <<tile_coords, tile_grid, tile_before, tile_a, tile_b, tile_to_fill, tile_result, pc_tile>>

\* The variables of the specifications of the second group of solvers.
newvars == <<mainvars, day03vars, day04vars, day07vars, cjbvars, tilevars>>

libvars == <<tripvars, edgevars, ccvars, gridvars, newvars>>

vars == <<day01vars, day10vars, day05vars, day08vars, day02vars, day09vars,
          libvars>>

\* The variables of the other solvers, which a solver leaves alone.
others01 == <<day10vars, day05vars, day08vars, day02vars, day09vars, libvars>>
others10 == <<day01vars, day05vars, day08vars, day02vars, day09vars, libvars>>
others05 == <<day01vars, day10vars, day08vars, day02vars, day09vars, libvars>>
others08 == <<day01vars, day10vars, day05vars, day02vars, day09vars, libvars>>
others02 == <<day01vars, day10vars, day05vars, day08vars, day09vars, libvars>>
others09 == <<day01vars, day10vars, day05vars, day08vars, day02vars, libvars>>
solvervars == <<day01vars, day10vars, day05vars, day08vars, day02vars, day09vars>>
others_trip == <<solvervars, edgevars, ccvars, gridvars, newvars>>
others_edge == <<solvervars, tripvars, ccvars, gridvars, newvars>>
others_cc == <<solvervars, tripvars, edgevars, gridvars, newvars>>
others_grid == <<solvervars, tripvars, edgevars, ccvars, newvars>>
oldvars == <<solvervars, tripvars, edgevars, ccvars, gridvars>>
others_main == <<oldvars, day03vars, day04vars, day07vars, cjbvars, tilevars>>
others_day03 == <<oldvars, mainvars, day04vars, day07vars, cjbvars, tilevars>>
others_day04 == <<oldvars, mainvars, day03vars, day07vars, cjbvars, tilevars>>
others_day07 == <<oldvars, mainvars, day03vars, day04vars, cjbvars, tilevars>>
others_cjb == <<oldvars, mainvars, day03vars, day04vars, day07vars, tilevars>>
others_tile == <<oldvars, mainvars, day03vars, day04vars, day07vars, cjbvars>>

-----------------------------------------------------------------------------
(* Rust integer arithmetic: `/` truncates toward zero and `%` takes the     *)
(* sign of the dividend.                                                    *)

Abs(n) == IF n < 0 THEN -n ELSE n

RustDiv(a, b) == IF a >= 0 THEN a \div b ELSE -((-a) \div b)

RustRem(a, b) == IF a >= 0 THEN a % b ELSE -((-a) % b)

-----------------------------------------------------------------------------
(* day01.rs                                                                 *)

INITIAL_DIAL_POSITION == 50
DIAL_LENGTH == 100

\* Bounds of the model.
MaxDistance == 205      \* SpecDial: distances range over -MaxDistance..MaxDistance
MaxRotations == 3       \* SpecDay01: lines per generated input

NoValue == "none"

turn_dial_raw_final_pos(p, dir, d) == IF dir = "Left" THEN p - d ELSE p + d

\* Mutant: the remainder is not lifted into the non-negative range.
turn_dial_final_pos_no_lift(raw) == RustRem(raw, DIAL_LENGTH)

turn_dial_final_pos(raw) ==
    RustRem(DIAL_LENGTH + RustRem(raw, DIAL_LENGTH), DIAL_LENGTH)

\* Mutant: only the whole revolutions of the raw position are counted.
turn_dial_zero_hits_of_revolutions(p, raw) == Abs(RustDiv(raw, DIAL_LENGTH))

\* Mutant: a turn that ends below zero counts a hit from any start position,
\* position 0 included.
turn_dial_zero_hits_from_any_start(p, raw) ==
    LET base == Abs(RustDiv(raw, DIAL_LENGTH))
    IN  IF raw < 0 \/ raw = 0 THEN base + 1 ELSE base

turn_dial_zero_hits(p, raw) ==
    LET base == Abs(RustDiv(raw, DIAL_LENGTH))
    IN  IF (p > 0 /\ raw < 0) \/ raw = 0 THEN base + 1 ELSE base

\* turn_dial(start_pos, direction, distance) = (final_pos, zero_hits)
turn_dial(p, dir, d) ==
    LET raw == turn_dial_raw_final_pos(p, dir, d)
    IN  <<turn_dial_final_pos(raw), turn_dial_zero_hits(p, raw)>>

Directions == {"Left", "Right"}

\* ---- SpecDial: turn_dial applied over and over from the initial position,
\* as solve_day01 does (dial_position = new_dial_position after each call).
IdleCall ==
    /\ start_pos = NoValue /\ direction = NoValue /\ distance = NoValue
    /\ final_pos = NoValue /\ zero_hits = NoValue

Idle10 ==
    /\ machine = NoValue /\ explored_states = {} /\ queue = <<>>
    /\ result10 = {} /\ pc10 = "idle"

Idle05 ==
    /\ ranges_in = <<>> /\ sorted_ranges = <<>> /\ fold_idx = 0
    /\ output = <<>> /\ pc05 = "idle"

Idle08 ==
    /\ coords = <<>> /\ circuits = <<>> /\ box_a = NoValue /\ box_b = NoValue
    /\ pc08 = "idle"

Idle02 ==
    /\ number = 0 /\ invalid_part_one = NoValue /\ invalid_part_two = NoValue
    /\ pc02 = "idle"

Idle09 ==
    /\ red_tiles = <<>> /\ compressed_coords = NoValue /\ grid = NoValue
    /\ start_coords = {} /\ coords_to_fill = <<>> /\ result09 = NoValue
    /\ pc09 = "idle"

IdleTrip ==
    /\ trip_start = NoValue /\ trip_distance = NoValue /\ trip_left = NoValue
    /\ trip_right = NoValue /\ pc_trip = "idle"

IdleEdge ==
    /\ edge_coords = <<>> /\ edge_map = <<>> /\ edge_idx = 0 /\ pc_edge = "idle"

IdleCc ==
    /\ cc_input = <<>> /\ cc_compressed = NoValue /\ cc_query = NoValue
    /\ cc_original = {} /\ pc_cc = "idle"

IdleGrid == grid_input = <<>> /\ grid_result = NoValue /\ pc_grid = "idle"

IdleMain ==
    /\ main_day = 0 /\ part_1_solution = {} /\ part_2_solution = {}
    /\ stdout = <<>> /\ solve10_part = NoValue /\ solve10_result = {}
    /\ pc_main = "idle"

IdleDay03 ==
    /\ row03 = <<>> /\ target_num = 0 /\ digit_indexes = <<>> /\ pointer = 0
    /\ result03 = {} /\ pc03 = "idle"

IdleDay04 ==
    /\ initial_grid = NoValue /\ max_rounds = {} /\ grid04 = NoValue
    /\ round04 = 0 /\ removed_rolls_counts = <<>> /\ pc04 = "idle"

IdleDay07 ==
    /\ input_grid = NoValue /\ cell_grid = NoValue /\ tick_row = 0
    /\ total_splits = 0 /\ possible_paths = {} /\ pc07 = "idle"

IdleCjb ==
    /\ cjb_coords = <<>> /\ cjb_rounds = 0 /\ shortest_edges = <<>>
    /\ cjb_circuits = <<>> /\ cjb_idx = 0 /\ final_line = {} /\ pc_cjb = "idle"

IdleTile ==
    /\ tile_coords = <<>> /\ tile_grid = <<>> /\ tile_before = <<>>
    /\ tile_a = {} /\ tile_b = {} /\ tile_to_fill = <<>>
    /\ tile_result = {} /\ pc_tile = "idle"

IdleNew == IdleMain /\ IdleDay03 /\ IdleDay04 /\ IdleDay07 /\ IdleCjb /\ IdleTile

\* Every solver of the second group but `g` is idle.
IdleNewBut(g) ==
    /\ IF g = "main" THEN TRUE ELSE IdleMain
    /\ IF g = "day03" THEN TRUE ELSE IdleDay03
    /\ IF g = "day04" THEN TRUE ELSE IdleDay04
    /\ IF g = "day07" THEN TRUE ELSE IdleDay07
    /\ IF g = "cjb" THEN TRUE ELSE IdleCjb
    /\ IF g = "tile" THEN TRUE ELSE IdleTile

IdleLib == IdleTrip /\ IdleEdge /\ IdleCc /\ IdleGrid /\ IdleNew

Idle01 ==
    /\ input = <<>> /\ part = NoValue /\ line_idx = 0
    /\ dial_position = INITIAL_DIAL_POSITION
    /\ final_pos_zero_hit_count = 0 /\ total_zero_hit_count = 0
    /\ result01 = NoValue /\ pc01 = "idle"
    /\ start_pos = NoValue /\ direction = NoValue /\ distance = NoValue
    /\ final_pos = NoValue /\ zero_hits = NoValue

IdleSolve01 ==
    /\ input = <<>> /\ part = NoValue /\ line_idx = 0
    /\ final_pos_zero_hit_count = 0 /\ total_zero_hit_count = 0
    /\ result01 = NoValue

InitDial ==
    /\ IdleSolve01
    /\ pc01 = "ready"
    /\ dial_position = INITIAL_DIAL_POSITION
    /\ IdleCall
    /\ Idle10 /\ Idle05 /\ Idle08 /\ Idle02 /\ Idle09 /\ IdleLib

\* day01.rs:43  let (new_dial_position, zero_hits) = turn_dial(dial_position, ..)
CallTurnDial(dir, d) ==
    /\ pc01 = "ready"
    /\ pc01' = "called"
    /\ start_pos' = dial_position
    /\ direction' = dir
    /\ distance' = d
    /\ final_pos' = turn_dial(dial_position, dir, d)[1]
    /\ zero_hits' = turn_dial(dial_position, dir, d)[2]
    /\ UNCHANGED <<input, part, line_idx, dial_position, final_pos_zero_hit_count,
                   total_zero_hit_count, result01>>

\* day01.rs:53  dial_position = new_dial_position; the locals of the loop body
\* go out of scope.
AssignDialPosition ==
    /\ pc01 = "called"
    /\ pc01' = "ready"
    /\ dial_position' = final_pos
    /\ start_pos' = NoValue /\ direction' = NoValue /\ distance' = NoValue
    /\ final_pos' = NoValue /\ zero_hits' = NoValue
    /\ UNCHANGED <<input, part, line_idx, final_pos_zero_hit_count,
                   total_zero_hit_count, result01>>

NextDial ==
    \/ /\ \E dir \in Directions, d \in (-MaxDistance)..MaxDistance :
              CallTurnDial(dir, d)
       /\ UNCHANGED others01
    \/ AssignDialPosition /\ UNCHANGED others01

SpecDial == InitDial /\ [][NextDial]_vars

-----------------------------------------------------------------------------
(* Reference semantics of the dial, click by click (not taken from the code) *)

\* The position after k single clicks from p.
PosAfterClicks(p, dir, k) ==
    IF dir = "Left" THEN (p - k) % DIAL_LENGTH ELSE (p + k) % DIAL_LENGTH

\* The number of the d single clicks after which the dial points at 0.
ClickHits(p, dir, d) ==
    Cardinality({k \in 1..d : PosAfterClicks(p, dir, k) = 0})

\* C2: for a start position in [0,100), either direction and a distance
\* d >= 0, the zero_hits reported by turn_dial is the number of the d single
\* clicks after which the dial points at 0 (starting on 0 is not itself a hit).
C2_ZeroHitsCountClicks ==
    (pc01 = "called" /\ distance >= 0)
        => zero_hits = ClickHits(start_pos, direction, distance)

\* C10: after any sequence of rotations applied with turn_dial from position
\* 50, the dial position is in [0, DIAL_LENGTH).
C10_DialPositionInRange ==
    /\ dial_position \in 0..(DIAL_LENGTH - 1)
    /\ pc01 = "called" => final_pos \in 0..(DIAL_LENGTH - 1)

\* A rotation to the left past zero (raw_final_pos < 0) has been computed.
C10_Witness ==
    /\ pc01 = "called"
    /\ direction = "Left"
    /\ distance > start_pos
    /\ final_pos = 95

\* C12: for a start position p in [0,100) and k >= 1, turn_dial(p, direction,
\* 100 * k) in either direction returns position p and exactly k zero hits,
\* also when p is 0.
C12_FullRevolutionsHitOncePerRevolution ==
    (pc01 = "called" /\ distance >= DIAL_LENGTH /\ distance % DIAL_LENGTH = 0)
        => /\ final_pos = start_pos
           /\ zero_hits = distance \div DIAL_LENGTH

\* turn_dial(0, Left, 200) has been computed: two revolutions from position 0.
C12_Witness ==
    /\ pc01 = "called"
    /\ start_pos = 0
    /\ direction = "Left"
    /\ distance = 2 * DIAL_LENGTH
    /\ final_pos = 0
    /\ zero_hits = 2

\* C2 apart from the turn of distance 0 from position 0 (diagnostic).
ZeroHitsCountClicksUnlessNoTurnAtZero ==
    (pc01 = "called" /\ distance >= 0 /\ ~(start_pos = 0 /\ distance = 0))
        => zero_hits = ClickHits(start_pos, direction, distance)

-----------------------------------------------------------------------------
(* day01.rs, turn_dial: a turn to the left followed by the turn back        *)

IdleSolvers == Idle01 /\ Idle10 /\ Idle05 /\ Idle08 /\ Idle02 /\ Idle09

IdleOld == IdleSolvers /\ IdleTrip /\ IdleEdge /\ IdleCc /\ IdleGrid

\* The arguments of the first call: a position on the dial and a distance.
InitTrip ==
    /\ trip_start \in 0..(DIAL_LENGTH - 1)
    /\ trip_distance \in 0..MaxDistance
    /\ trip_left = NoValue
    /\ trip_right = NoValue
    /\ pc_trip = "start"
    /\ IdleSolvers /\ IdleEdge /\ IdleCc /\ IdleGrid /\ IdleNew

\* turn_dial(p, Direction::Left, d)
TurnLeft ==
    /\ pc_trip = "start"
    /\ trip_left' = turn_dial(trip_start, "Left", trip_distance)
    /\ pc_trip' = "left"
    /\ UNCHANGED <<trip_start, trip_distance, trip_right>>

\* turn_dial(p', Direction::Right, d), p' being the position the first call
\* returned.
TurnRight ==
    /\ pc_trip = "left"
    /\ trip_right' = turn_dial(trip_left[1], "Right", trip_distance)
    /\ pc_trip' = "back"
    /\ UNCHANGED <<trip_start, trip_distance, trip_left>>

NextTrip ==
    \/ TurnLeft /\ UNCHANGED others_trip
    \/ TurnRight /\ UNCHANGED others_trip

SpecTrip == InitTrip /\ [][NextTrip]_vars

\* C11: for a start position p in [0,100) and a distance d >= 0, turning left
\* by d and then right by d from the resulting position returns the dial to
\* p, and the zero hits of the round trip (the clicks of the two turns after
\* which the dial points at 0) are the sum of the hits the two calls report.
C11_RoundTripReturnsWithSummedHits ==
    pc_trip = "back" =>
        /\ trip_right[1] = trip_start
        /\ trip_left[2] + trip_right[2] =
               ClickHits(trip_start, "Left", trip_distance)
                   + ClickHits(trip_left[1], "Right", trip_distance)

\* The first half of C11: the round trip returns to p (diagnostic).
RoundTripReturnsToStart ==
    pc_trip = "back" => trip_right[1] = trip_start

\* The second half of C11 apart from the round trip of distance 0 from
\* position 0 (diagnostic).
RoundTripHitsUnlessNoTurnAtZero ==
    (pc_trip = "back" /\ ~(trip_start = 0 /\ trip_distance = 0)) =>
        trip_left[2] + trip_right[2] =
            ClickHits(trip_start, "Left", trip_distance)
                + ClickHits(trip_left[1], "Right", trip_distance)

-----------------------------------------------------------------------------
(* day01.rs, solve_day01: lines are sequences of characters                 *)

DigitChars == <<"0", "1", "2", "3", "4", "5", "6", "7", "8", "9">>

IsDigitChar(c) == \E i \in 1..10 : DigitChars[i] = c

DigitCharValue(c) == (CHOOSE i \in 1..10 : DigitChars[i] = c) - 1

RECURSIVE DecimalValue(_)
DecimalValue(chars) ==
    IF chars = <<>> THEN 0
    ELSE 10 * DecimalValue(SubSeq(chars, 1, Len(chars) - 1))
         + DigitCharValue(chars[Len(chars)])

\* str::parse::<isize>: an optional sign followed by at least one digit and
\* nothing else; anything else is an error.
ParseIsizeOk(chars) ==
    LET body == IF chars # <<>> /\ chars[1] \in {"+", "-"} THEN Tail(chars) ELSE chars
    IN  /\ body # <<>>
        /\ \A i \in 1..Len(body) : IsDigitChar(body[i])

ParseIsize(chars) ==
    IF chars[1] = "-" THEN -DecimalValue(Tail(chars))
    ELSE IF chars[1] = "+" THEN DecimalValue(Tail(chars))
    ELSE DecimalValue(chars)

\* A character is modelled by its name; "U+00E9" (e with an acute accent)
\* takes two bytes in UTF-8, the other characters of the model one.
len_utf8(c) == IF c = "U+00E9" THEN 2 ELSE 1

\* &rotation[..1] and &rotation[1..] slice by bytes: byte index 1 has to be a
\* character boundary of the (non-empty) line, or the slicing panics.
is_char_boundary_1(rotation) == len_utf8(rotation[1]) = 1

\* match &rotation[..1] { "L" => Left, "R" => Right, _ => Err }
ParseDirection(rotation) ==
    IF rotation[1] = "L" THEN "Left"
    ELSE IF rotation[1] = "R" THEN "Right"
    ELSE NoValue

OkResult(n) == [ok |-> TRUE, value |-> n]
InvalidInput(rotation) == [ok |-> FALSE, line |-> rotation]

\* The inputs of the model: every sequence of at most MaxRotations lines over
\* LineSamples, and the example of the puzzle statement.
LineSamples ==
    {<<c>> \o r : c \in {"L", "R", "X"},
                  r \in {<<"0">>, <<"5", "0">>, <<"1", "0", "0">>, <<"x">>}}

ExampleInput ==
    << <<"L","6","8">>, <<"L","3","0">>, <<"R","4","8">>, <<"L","5">>,
       <<"R","6","0">>, <<"L","5","5">>, <<"L","1">>, <<"L","9","9">>,
       <<"R","1","4">>, <<"L","8","2">> >>

Inputs01 ==
    UNION {[1..n -> LineSamples] : n \in 0..MaxRotations} \cup {ExampleInput}

InitDay01 ==
    /\ input \in Inputs01
    /\ part \in {"One", "Two"}
    /\ line_idx = 0
    /\ dial_position = INITIAL_DIAL_POSITION
    /\ final_pos_zero_hit_count = 0
    /\ total_zero_hit_count = 0
    /\ result01 = NoValue
    /\ pc01 = "loop"
    /\ IdleCall
    /\ Idle10 /\ Idle05 /\ Idle08 /\ Idle02 /\ Idle09 /\ IdleLib

\* One iteration of `for rotation in rotations` (day01.rs:33-54).
ProcessRotation ==
    /\ pc01 = "loop"
    /\ line_idx < Len(input)
    /\ LET rotation == input[line_idx + 1]
           dir == ParseDirection(rotation)
           turned == turn_dial(dial_position, dir, ParseIsize(Tail(rotation)))
       IN  IF ~is_char_boundary_1(rotation)
           THEN /\ pc01' = "panicked"
                /\ UNCHANGED <<result01, line_idx, dial_position,
                               final_pos_zero_hit_count, total_zero_hit_count,
                               start_pos, direction, distance, final_pos, zero_hits>>
           ELSE IF dir = NoValue \/ ~ParseIsizeOk(Tail(rotation))
           THEN /\ result01' = InvalidInput(rotation)
                /\ pc01' = "done"
                /\ UNCHANGED <<line_idx, dial_position, final_pos_zero_hit_count,
                               total_zero_hit_count, start_pos, direction,
                               distance, final_pos, zero_hits>>
           ELSE /\ start_pos' = dial_position
                /\ direction' = dir
                /\ distance' = ParseIsize(Tail(rotation))
                /\ final_pos' = turned[1]
                /\ zero_hits' = turned[2]
                /\ final_pos_zero_hit_count' =
                       IF dial_position = 0 THEN final_pos_zero_hit_count + 1
                       ELSE final_pos_zero_hit_count
                /\ total_zero_hit_count' = total_zero_hit_count + turned[2]
                /\ dial_position' = turned[1]
                /\ line_idx' = line_idx + 1
                /\ UNCHANGED <<result01, pc01>>
    /\ UNCHANGED <<input, part>>

\* match part { One => Ok(final_pos_zero_hit_count), Two => Ok(total_..) }
ReturnDay01 ==
    /\ pc01 = "loop"
    /\ line_idx = Len(input)
    /\ result01' = IF part = "One" THEN OkResult(final_pos_zero_hit_count)
                   ELSE OkResult(total_zero_hit_count)
    /\ pc01' = "done"
    /\ UNCHANGED <<input, part, line_idx, dial_position, final_pos_zero_hit_count,
                   total_zero_hit_count, start_pos, direction, distance,
                   final_pos, zero_hits>>

NextDay01 ==
    \/ ProcessRotation /\ UNCHANGED others01
    \/ ReturnDay01 /\ UNCHANGED others01

SpecDay01 == InitDay01 /\ [][NextDay01]_vars

\* Reference: a well-formed line is L or R followed by decimal digits.
WellFormedLine(l) ==
    /\ Len(l) >= 2
    /\ l[1] \in {"L", "R"}
    /\ \A i \in 2..Len(l) : IsDigitChar(l[i])

SignedClicks(l) ==
    IF l[1] = "L" THEN -DecimalValue(Tail(l)) ELSE DecimalValue(Tail(l))

RECURSIVE SumClicks(_, _)
SumClicks(lines, n) ==
    IF n = 0 THEN 0 ELSE SumClicks(lines, n - 1) + SignedClicks(lines[n])

\* The dial position at the end of the n-th rotation.
PositionAfter(lines, n) ==
    (INITIAL_DIAL_POSITION + SumClicks(lines, n)) % DIAL_LENGTH

\* The number of rotations at whose end the dial points at 0.
RotationsEndingOnZero(lines) ==
    Cardinality({n \in 1..Len(lines) : PositionAfter(lines, n) = 0})

\* C1: on well-formed rotation lines, Part One is the number of rotations at
\* whose end the dial points at 0, the last rotation included.
C1_PartOneCountsRotationsEndingOnZero ==
    (/\ pc01 = "done"
     /\ part = "One"
     /\ \A i \in 1..Len(input) : WellFormedLine(input[i]))
        => result01 = OkResult(RotationsEndingOnZero(input))

\* C13: on the example input L68, L30, R48, L5, R60, L55, L1, L99, R14, L82
\* solve_day01 returns 3 for Part One and 6 for Part Two.
C13_ExampleInputAnswers ==
    (input = ExampleInput /\ pc01 = "done") =>
        result01 = OkResult(IF part = "One" THEN 3 ELSE 6)

\* solve_day01 has returned Ok(6) for Part Two of the example input, after
\* all ten rotations.
C13_Witness ==
    /\ input = ExampleInput
    /\ part = "Two"
    /\ pc01 = "done"
    /\ line_idx = 10
    /\ result01 = OkResult(6)

\* C1 with the last rotation left out (diagnostic): what the loop counts.
PartOneCountsAllButLastRotation ==
    (/\ pc01 = "done"
     /\ part = "One"
     /\ \A i \in 1..Len(input) : WellFormedLine(input[i]))
        => result01 = OkResult(Cardinality(
               {n \in 1..(Len(input) - 1) : PositionAfter(input, n) = 0}))

-----------------------------------------------------------------------------
(* day10.rs, min_presses_to_target_state                                    *)

\* Bounds of the model.
MaxBulbs == 3           \* bulbs per machine: states are 0 .. 2^MaxBulbs - 1
MaxButtons == 3         \* buttons per machine

RECURSIVE Pow2(_)
Pow2(n) == IF n = 0 THEN 1 ELSE 2 * Pow2(n - 1)

\* Mutant: a button switches its bulbs on instead of toggling them (`|`).
RECURSIVE BitOr(_, _)
BitOr(a, b) ==
    IF a = 0 THEN b
    ELSE IF b = 0 THEN a
    ELSE (IF (a % 2) + (b % 2) > 0 THEN 1 ELSE 0) + 2 * BitOr(a \div 2, b \div 2)

\* `^` on u16: bitwise exclusive or.
RECURSIVE BitXor(_, _)
BitXor(a, b) ==
    IF a = 0 THEN b
    ELSE IF b = 0 THEN a
    ELSE (((a % 2) + (b % 2)) % 2) + 2 * BitXor(a \div 2, b \div 2)

\* Machines: a target state and a list of button masks (each button toggles
\* at least one bulb), the masks in ascending order.
ButtonLists ==
    UNION {{b \in [1..n -> 1..(Pow2(MaxBulbs) - 1)] :
               \A i \in 1..(n - 1) : b[i] < b[i + 1]} : n \in 0..MaxButtons}

Machines ==
    [bulb_count : {MaxBulbs},
     target_state : 0..(Pow2(MaxBulbs) - 1),
     buttons : ButtonLists]

\* Mutant: the new states go to the front of the queue (depth first).
push_front_all(q, items) == items \o q

\* queue.push_back, for each element of a list in turn
push_back_all(q, items) == q \o items

\* The states to enqueue from `state`: one per button, in button order, unless
\* already explored (day10.rs:91-96).
RECURSIVE next_states(_, _, _, _, _)
next_states(buttons, i, round_num, state, explored) ==
    IF i > Len(buttons) THEN <<>>
    ELSE LET next_state == BitXor(state, buttons[i])
             rest == next_states(buttons, i + 1, round_num, state, explored)
         IN  IF next_state \notin explored
             THEN <<<<round_num + 1, next_state>>>> \o rest
             ELSE rest

InitDay10 ==
    /\ machine \in Machines
    /\ explored_states = {}
    /\ queue = <<<<0, 0>>>>
    /\ result10 = {}
    /\ pc10 = "bfs"
    /\ Idle01 /\ Idle05 /\ Idle08 /\ Idle02 /\ Idle09 /\ IdleLib

\* One iteration of `while let Some((round_num, state)) = queue.pop_front()`.
PopFront ==
    /\ pc10 = "bfs"
    /\ queue # <<>>
    /\ LET round_num == Head(queue)[1]
           state == Head(queue)[2]
       IN  IF state = machine.target_state
           THEN /\ result10' = {round_num}
                /\ pc10' = "returned"
                /\ queue' = Tail(queue)
                /\ UNCHANGED explored_states
           ELSE /\ explored_states' = explored_states \cup {state}
                /\ queue' = push_back_all(Tail(queue),
                                next_states(machine.buttons, 1, round_num, state,
                                            explored_states \cup {state}))
                /\ UNCHANGED <<result10, pc10>>
    /\ UNCHANGED machine

\* The queue is empty: panic!("Machine target state [..] is unreachable").
PanicUnreachable ==
    /\ pc10 = "bfs"
    /\ queue = <<>>
    /\ pc10' = "panicked"
    /\ UNCHANGED <<machine, explored_states, queue, result10>>

NextDay10 ==
    \/ PopFront /\ UNCHANGED others10
    \/ PanicUnreachable /\ UNCHANGED others10

SpecDay10 == InitDay10 /\ [][NextDay10]_vars

\* Reference: the states one more press leads to from the states of S.
StatesAfterOnePress(buttons, S) ==
    {BitXor(st, buttons[i]) : st \in S, i \in 1..Len(buttons)}

\* The least k >= n such that some sequence of k presses ends in the target,
\* S being the states that exactly n presses produce; -1 when there is none
\* (a shortest sequence never visits a state twice, so it has fewer presses
\* than there are states).
RECURSIVE LeastPressesFrom(_, _, _)
LeastPressesFrom(m, S, n) ==
    IF m.target_state \in S THEN n
    ELSE IF n >= Pow2(m.bulb_count) THEN -1
    ELSE LeastPressesFrom(m, StatesAfterOnePress(m.buttons, S), n + 1)

MinPressSequenceLength(m) == LeastPressesFrom(m, {0}, 0)

TargetReachable(m) == MinPressSequenceLength(m) >= 0

\* C3: for a machine whose target is reachable from state 0, the search never
\* runs out of states before returning, and what it returns is the minimum
\* length of a press sequence ending in the target (0 for target 0).
C3_MinPressesIsMinimum ==
    /\ (pc10 = "returned" /\ TargetReachable(machine)) =>
           /\ result10 = {MinPressSequenceLength(machine)}
           /\ machine.target_state = 0 => result10 = {0}
    /\ ((pc10 = "bfs" /\ queue = <<>>) \/ pc10 = "panicked") =>
           ~TargetReachable(machine)

\* A machine that needs three presses has been solved.
C3_Witness ==
    /\ pc10 = "returned"
    /\ result10 = {3}
    /\ Len(machine.buttons) = 3

\* The while loop of min_presses_to_target_state runs on its own thread of
\* control until it returns or panics: an iteration that can be taken is taken.
FairSpecDay10 == SpecDay10 /\ WF_vars(NextDay10)

\* Reference: bulb i of the state n (bit i).
BulbAt(n, i) == (n \div Pow2(i)) % 2

\* Reference: the target is the XOR of the buttons of J (a set of indexes):
\* a bulb of the target is lit iff an odd number of the buttons toggle it.
TargetIsXorOf(m, J) ==
    \A i \in 0..(m.bulb_count - 1) :
        BulbAt(m.target_state, i) =
            Cardinality({j \in J : BulbAt(m.buttons[j], i) = 1}) % 2

\* No subset of the buttons XORs to the target.
TargetUnreachable(m) ==
    \A J \in SUBSET (1..Len(m.buttons)) : ~TargetIsXorOf(m, J)

\* C15: for a machine whose target state is the XOR of no subset of its
\* buttons, min_presses_to_target_state never returns a press count, and it
\* terminates: the queue empties and the function panics.
C15_UnreachableTargetPanics ==
    /\ [](pc10 = "returned" => ~TargetUnreachable(machine))
    /\ (pc10 = "bfs" /\ TargetUnreachable(machine))
           ~> (pc10 = "panicked" /\ queue = <<>>)

\* The search has explored the four states three buttons can produce and has
\* panicked, the target being none of them.
C15_Witness ==
    /\ pc10 = "panicked"
    /\ TargetUnreachable(machine)
    /\ Len(machine.buttons) = 3
    /\ Cardinality(explored_states) = 4
    /\ queue = <<>>

-----------------------------------------------------------------------------
(* day05.rs, sort_and_merge_ranges                                          *)

\* Bounds of the model.
MaxId == 4              \* range bounds are in 0..MaxId
MaxRanges == 3          \* ranges per input list

Max(a, b) == IF a >= b THEN a ELSE b

\* RangeInclusive<u64> with start <= end.
Ranges == {r \in [start : 0..MaxId, end : 0..MaxId] : r.start <= r.end}

RangeLists == UNION {[1..n -> Ranges] : n \in 0..MaxRanges}

\* sorted_by_key(|range| range.start()): a stable sort, elements with equal
\* keys keep their input order.
RECURSIVE insert_by_start(_, _)
insert_by_start(sorted, r) ==
    IF sorted = <<>> THEN <<r>>
    ELSE IF sorted[Len(sorted)].start <= r.start THEN Append(sorted, r)
    ELSE Append(insert_by_start(SubSeq(sorted, 1, Len(sorted) - 1), r),
                sorted[Len(sorted)])

\* Mutant: the input is taken back to front instead of sorted.
RECURSIVE reversed_input(_)
reversed_input(list) ==
    IF list = <<>> THEN <<>>
    ELSE <<list[Len(list)]>> \o reversed_input(SubSeq(list, 1, Len(list) - 1))

RECURSIVE sorted_by_start(_)
sorted_by_start(list) ==
    IF list = <<>> THEN <<>>
    ELSE insert_by_start(sorted_by_start(SubSeq(list, 1, Len(list) - 1)),
                         list[Len(list)])

\* Mutant: a range touching the end of the last one is not merged into it.
overlaps_last_strictly(last_range, range) == range.start < last_range.end

\* Some(last_range) if range.start() <= last_range.end()
overlaps_last(last_range, range) == range.start <= last_range.end

\* Mutant: the merged range ends where the new range ends.
merged_end_of_new_range(last_range, range) == range.end

\* *range.end().max(last_range.end())
merged_end(last_range, range) == Max(range.end, last_range.end)

\* The closure of the fold (day05.rs:68-76).
fold_step(out, range) ==
    IF out # <<>> /\ overlaps_last(out[Len(out)], range)
    THEN [out EXCEPT ![Len(out)] =
             [start |-> out[Len(out)].start,
              end |-> merged_end(out[Len(out)], range)]]
    ELSE Append(out, range)

\* fold(vec![], ..) over the first n elements of the sorted iterator.
RECURSIVE fold_ranges(_, _)
fold_ranges(sorted, n) ==
    IF n = 0 THEN <<>> ELSE fold_step(fold_ranges(sorted, n - 1), sorted[n])

\* sort_and_merge_ranges(input) as a function of its argument.
sort_and_merge_ranges(list) ==
    fold_ranges(sorted_by_start(list), Len(list))

InitDay05 ==
    /\ ranges_in \in RangeLists
    /\ sorted_ranges = <<>>
    /\ fold_idx = 0
    /\ output = <<>>
    /\ pc05 = "sort"
    /\ Idle01 /\ Idle10 /\ Idle08 /\ Idle02 /\ Idle09 /\ IdleLib

\* input.iter().sorted_by_key(..)
SortRanges ==
    /\ pc05 = "sort"
    /\ sorted_ranges' = sorted_by_start(ranges_in)
    /\ pc05' = "fold"
    /\ UNCHANGED <<ranges_in, fold_idx, output>>

\* One call of the fold's closure.
FoldRange ==
    /\ pc05 = "fold"
    /\ fold_idx < Len(sorted_ranges)
    /\ output' = fold_step(output, sorted_ranges[fold_idx + 1])
    /\ fold_idx' = fold_idx + 1
    /\ UNCHANGED <<ranges_in, sorted_ranges, pc05>>

\* The iterator is exhausted: the accumulator is returned.
ReturnMerged ==
    /\ pc05 = "fold"
    /\ fold_idx = Len(sorted_ranges)
    /\ pc05' = "done"
    /\ UNCHANGED <<ranges_in, sorted_ranges, fold_idx, output>>

NextDay05 ==
    \/ SortRanges /\ UNCHANGED others05
    \/ FoldRange /\ UNCHANGED others05
    \/ ReturnMerged /\ UNCHANGED others05

SpecDay05 == InitDay05 /\ [][NextDay05]_vars

\* Reference: the integers a list of inclusive ranges covers.
Covered(list) == UNION {list[i].start .. list[i].end : i \in 1..Len(list)}

\* C4: the integers covered by the output of sort_and_merge_ranges are exactly
\* the union of the integers of the input ranges.
C4_MergeKeepsCoverage ==
    pc05 = "done" => Covered(output) = Covered(ranges_in)

\* A range lying inside an earlier one, and ending before it, has been merged.
C4_Witness ==
    /\ pc05 = "done"
    /\ Len(ranges_in) = 3
    /\ Len(output) = 1
    /\ \E i, j \in 1..Len(ranges_in) :
           /\ ranges_in[i].start < ranges_in[j].start
           /\ ranges_in[j].end < ranges_in[i].end

\* C5: the output is sorted by ascending start and each output range starts
\* strictly after the previous output range ends.
C5_OutputSortedAndDisjoint ==
    pc05 = "done" =>
        \A i \in 1..(Len(output) - 1) :
            /\ output[i].start <= output[i + 1].start
            /\ output[i].end < output[i + 1].start

\* An input given out of order has produced several output ranges.
C5_Witness ==
    /\ pc05 = "done"
    /\ Len(output) >= 2
    /\ \E i \in 1..(Len(ranges_in) - 1) : ranges_in[i].start > ranges_in[i + 1].start

\* C14: sort_and_merge_ranges is idempotent: applied to its own output it
\* returns that output.
C14_MergeIsIdempotent ==
    pc05 = "done" =>
        /\ output = sort_and_merge_ranges(ranges_in)
        /\ sort_and_merge_ranges(output) = output

\* Three ranges given out of order have been merged into two, and merging the
\* two again gives the same two.
C14_Witness ==
    /\ pc05 = "done"
    /\ Len(ranges_in) = 3
    /\ Len(output) = 2
    /\ ranges_in[1].start > ranges_in[3].start
    /\ sort_and_merge_ranges(output) = output

-----------------------------------------------------------------------------
(* day08.rs, connect_junction_box                                           *)

\* Bound of the model.
MaxBoxes == 5           \* junction boxes

Coords3D(x, y, z) == [x |-> x, y |-> y, z |-> z]

\* The junction boxes of the model: pairwise distinct coordinates.
BoxCoords == [i \in 1..MaxBoxes |-> Coords3D(i, (i * i) % 7, 0)]

\* A coordinate that is no junction box.
StrangerBox == Coords3D(0, 0, 0)

RangeOf(seq) == {seq[i] : i \in 1..Len(seq)}

\* circuits.iter().position(|circuit| circuit.contains(box)): the first
\* index (from 1) of a circuit holding the box, 0 for None.
position(cs, box) ==
    IF \E i \in 1..Len(cs) : box \in cs[i]
    THEN CHOOSE i \in 1..Len(cs) :
             /\ box \in cs[i]
             /\ \A j \in 1..(i - 1) : box \notin cs[j]
    ELSE 0

\* Vec::remove(idx): the later elements shift left.
vec_remove(cs, idx) ==
    [i \in 1..(Len(cs) - 1) |-> IF i < idx THEN cs[i] ELSE cs[i + 1]]

\* Mutant: the removed circuit is dropped, not added to the kept one.
remove_without_extend(cs, remove_idx, keep_idx) == vec_remove(cs, remove_idx)

\* Mutant: the kept circuit takes the boxes but the other one is not removed.
extend_without_remove(cs, remove_idx, keep_idx) ==
    [cs EXCEPT ![keep_idx] = cs[keep_idx] \cup cs[remove_idx]]

\* let removed_circuit = circuits.remove(remove_idx);
\* circuits[keep_idx].extend(removed_circuit);
remove_and_extend(cs, remove_idx, keep_idx) ==
    LET removed_circuit == cs[remove_idx]
        shifted == vec_remove(cs, remove_idx)
    IN  [shifted EXCEPT ![keep_idx] = shifted[keep_idx] \cup removed_circuit]

\* The circuits after connect_junction_box(circuits, a, b), both boxes being
\* in some circuit.
connected(cs, a, b) ==
    LET box_a_circuit_idx == position(cs, a)
        box_b_circuit_idx == position(cs, b)
    IN  IF box_a_circuit_idx = box_b_circuit_idx THEN cs
        ELSE IF box_b_circuit_idx > box_a_circuit_idx
             THEN remove_and_extend(cs, box_b_circuit_idx, box_a_circuit_idx)
             ELSE remove_and_extend(cs, box_a_circuit_idx, box_b_circuit_idx)

\* coords.iter().map(|coord| HashSet::from([coord])).collect()
InitDay08 ==
    /\ coords = BoxCoords
    /\ circuits = [i \in 1..Len(BoxCoords) |-> {BoxCoords[i]}]
    /\ box_a = NoValue /\ box_b = NoValue
    /\ pc08 = "ready"
    /\ Idle01 /\ Idle10 /\ Idle05 /\ Idle02 /\ Idle09 /\ IdleLib

ConnectJunctionBox(a, b) ==
    /\ pc08 = "ready"
    /\ position(circuits, a) # 0 /\ position(circuits, b) # 0
    /\ box_a' = a /\ box_b' = b
    /\ circuits' = connected(circuits, a, b)
    /\ UNCHANGED <<coords, pc08>>

\* .expect("circuits should contain coord_a") / coord_b
ConnectPanics(a, b) ==
    /\ pc08 = "ready"
    /\ position(circuits, a) = 0 \/ position(circuits, b) = 0
    /\ box_a' = a /\ box_b' = b
    /\ pc08' = "panicked"
    /\ UNCHANGED <<coords, circuits>>

NextDay08 ==
    \/ /\ \E a, b \in RangeOf(coords) : ConnectJunctionBox(a, b)
       /\ UNCHANGED others08
    \/ /\ \E a, b \in RangeOf(coords) \cup {StrangerBox} : ConnectPanics(a, b)
       /\ UNCHANGED others08

SpecDay08 == InitDay08 /\ [][NextDay08]_vars

\* C6: starting from one singleton circuit per junction box, after any
\* sequence of connect_junction_box calls the circuits are non-empty, pairwise
\* disjoint and their union is the set of all boxes.
C6_CircuitsPartitionBoxes ==
    pc08 # "idle" =>
        /\ \A i \in 1..Len(circuits) : circuits[i] # {}
        /\ \A i, j \in 1..Len(circuits) :
               i # j => circuits[i] \cap circuits[j] = {}
        /\ UNION {circuits[i] : i \in 1..Len(circuits)} = RangeOf(coords)

\* Two circuits of several boxes each have been joined into one.
C6_Witness ==
    /\ pc08 = "ready"
    /\ Len(circuits) = 2
    /\ \E i \in 1..Len(circuits) :
           /\ Cardinality(circuits[i]) = 4
           /\ box_a \in circuits[i] /\ box_b \in circuits[i]
           /\ box_a # BoxCoords[1] /\ box_b # BoxCoords[1]

SameCircuit(cs, a, b) == \E i \in 1..Len(cs) : a \in cs[i] /\ b \in cs[i]

\* C7: a call of connect_junction_box never increases the number of circuits
\* and never separates two boxes of one circuit; on two boxes of one circuit
\* it leaves the list as it is, and on boxes of two circuits it reduces the
\* number of circuits by exactly one.
C7_ConnectNeverSplits ==
    [][ /\ Len(circuits') <= Len(circuits)
        /\ \A a, b \in RangeOf(coords) :
               SameCircuit(circuits, a, b) => SameCircuit(circuits', a, b)
        /\ pc08' = "ready" =>
               IF SameCircuit(circuits, box_a', box_b')
               THEN circuits' = circuits
               ELSE Len(circuits') = Len(circuits) - 1
      ]_vars

\* A call on two boxes already in one circuit of three has been made.
C7_Witness ==
    /\ pc08 = "ready"
    /\ box_a # box_b
    /\ Len(circuits) = 3
    /\ \E i \in 1..Len(circuits) :
           /\ Cardinality(circuits[i]) = 3
           /\ box_a \in circuits[i] /\ box_b \in circuits[i]

-----------------------------------------------------------------------------
(* line.rs, Line3D, and day08.rs, build_edge_length_map                     *)

\* Bound of the model: a list holds at most MaxPoints coordinates.
MaxPoints == 4

Line3D(a, b) == <<a, b>>

\* impl PartialEq for Line3D
line_eq(self, other) ==
    \/ (self[1] = other[1] /\ self[2] = other[2])
    \/ (self[1] = other[2] /\ self[2] = other[1])

\* Mutant: the endpoints are hashed in the order they are stored in.
line_hash_as_stored(self) == <<self[1], self[2]>>

\* impl Hash for Line3D: what is fed to the hasher, min.hash(state) and then
\* max.hash(state).
line_hash(self) ==
    IF \/ self[1].x < self[2].x
       \/ (self[1].x = self[2].x /\ self[1].y < self[2].y)
       \/ (self[1].x = self[2].x /\ self[1].y = self[2].y /\ self[1].z < self[2].z)
    THEN <<self[1], self[2]>>
    ELSE <<self[2], self[1]>>

\* HashMap: the entry of a key is found among the entries hashed alike, by
\* `==`; 0 when there is none.
map_find(map, key) ==
    IF \E i \in 1..Len(map) :
           line_hash(map[i].key) = line_hash(key) /\ line_eq(map[i].key, key)
    THEN CHOOSE i \in 1..Len(map) :
           line_hash(map[i].key) = line_hash(key) /\ line_eq(map[i].key, key)
    ELSE 0

\* HashMap::insert: the value of an entry already there is replaced (its key
\* is kept), otherwise an entry is added.
map_insert(map, key, value) ==
    IF map_find(map, key) = 0 THEN Append(map, [key |-> key, value |-> value])
    ELSE [map EXCEPT ![map_find(map, key)].value = value]

\* Coords3D::distance before the square root is taken; the square root of an
\* f64 keeps the order and the equality of these sums in the model's range.
distance_squared(a, b) ==
    (a.x - b.x) * (a.x - b.x) + (a.y - b.y) * (a.y - b.y)
        + (a.z - b.z) * (a.z - b.z)

\* The coordinates of the model: pairs of them differ in x, in y alone and
\* in z alone, in both directions.
Points3D ==
    {Coords3D(0, 0, 0), Coords3D(0, 0, 1), Coords3D(0, 1, 0), Coords3D(1, 0, 0),
     Coords3D(-1, 1, 1), Coords3D(1, 1, -1)}

\* Lists of distinct coordinates.
PointLists ==
    UNION {{l \in [1..n -> Points3D] :
               \A i, j \in 1..n : i # j => l[i] # l[j]} : n \in 0..MaxPoints}

InitEdge ==
    /\ edge_coords \in PointLists
    /\ edge_map = <<>>
    /\ edge_idx = 0
    /\ pc_edge = "pairs"
    /\ IdleSolvers /\ IdleTrip /\ IdleCc /\ IdleGrid /\ IdleNew

\* One element of iproduct!(coords, coords): filtered out when coord_a ==
\* coord_b, inserted otherwise.
NextPair ==
    /\ pc_edge = "pairs"
    /\ edge_idx < Len(edge_coords) * Len(edge_coords)
    /\ LET coord_a == edge_coords[(edge_idx \div Len(edge_coords)) + 1]
           coord_b == edge_coords[(edge_idx % Len(edge_coords)) + 1]
       IN  edge_map' = IF coord_a # coord_b
                       THEN map_insert(edge_map, Line3D(coord_a, coord_b),
                                       distance_squared(coord_a, coord_b))
                       ELSE edge_map
    /\ edge_idx' = edge_idx + 1
    /\ UNCHANGED <<edge_coords, pc_edge>>

\* The product is exhausted: line_to_length_map is returned.
ReturnEdgeMap ==
    /\ pc_edge = "pairs"
    /\ edge_idx = Len(edge_coords) * Len(edge_coords)
    /\ pc_edge' = "done"
    /\ UNCHANGED <<edge_coords, edge_map, edge_idx>>

NextEdge ==
    \/ NextPair /\ UNCHANGED others_edge
    \/ ReturnEdgeMap /\ UNCHANGED others_edge

SpecEdge == InitEdge /\ [][NextEdge]_vars

\* Reference: the unordered pair of the endpoints of a line.
Endpoints(line) == {line[1], line[2]}

\* C18: Line3D(A, B) equals Line3D(B, A) and both feed the same ordered pair
\* to the hasher; lines with different unordered endpoint pairs are unequal;
\* a map keyed by Line3D holds at most one entry per unordered pair; and
\* build_edge_length_map over n distinct coordinates returns n*(n-1)/2
\* entries.
C18_UndirectedLinesKeyTheMap ==
    LET points == RangeOf(edge_coords)
        n == Len(edge_coords)
    IN  /\ \A a, b \in points :
               /\ line_eq(Line3D(a, b), Line3D(b, a))
               /\ line_hash(Line3D(a, b)) = line_hash(Line3D(b, a))
        /\ \A a, b, c, d \in points :
               Endpoints(Line3D(a, b)) # Endpoints(Line3D(c, d))
                   => ~line_eq(Line3D(a, b), Line3D(c, d))
        /\ \A i, j \in 1..Len(edge_map) :
               i # j => Endpoints(edge_map[i].key) # Endpoints(edge_map[j].key)
        /\ pc_edge = "done" => 2 * Len(edge_map) = n * (n - 1)

\* The map of four boxes has been returned with its six lines.
C18_Witness ==
    /\ pc_edge = "done"
    /\ Len(edge_coords) = 4
    /\ Len(edge_map) = 6

-----------------------------------------------------------------------------
(* day02.rs, is_invalid_part_one and is_invalid_part_two                    *)

\* Bounds of the model: the numbers checked are those whose decimal digits
\* are in 0..MaxDigit (the first one not 0) and number at most MaxDigits.
MaxDigit == 2
MaxDigits == 8

RECURSIVE Pow10(_)
Pow10(n) == IF n = 0 THEN 1 ELSE 10 * Pow10(n - 1)

\* u64::to_string: the decimal digits, most significant first.
RECURSIVE to_string(_)
to_string(n) ==
    IF n \div 10 = 0 THEN <<DigitChars[(n % 10) + 1]>>
    ELSE Append(to_string(n \div 10), DigitChars[(n % 10) + 1])

\* usize::div_ceil
div_ceil(a, b) == (a + b - 1) \div b

\* Mutant: a pattern is tried whatever the length of the rest.
any_rest_length(rest_len, pattern_len) == TRUE

\* rest_len.is_multiple_of(pattern_len)
is_multiple_of(rest_len, pattern_len) == rest_len % pattern_len = 0

\* The closure of `any` (day02.rs:59-71), string indexes from 1.
pattern_repeats(number_str, pattern_len) ==
    LET num_digits == Len(number_str)
        rest_len == num_digits - pattern_len
        pattern == SubSeq(number_str, 1, pattern_len)
    IN  /\ is_multiple_of(rest_len, pattern_len)
        /\ \A round \in 0..((rest_len \div pattern_len) - 1) :
               LET start_index == pattern_len + pattern_len * round
               IN  pattern = SubSeq(number_str, start_index + 1,
                                    start_index + pattern_len)

is_invalid_part_two(n) ==
    IF n \div 10 = 0 THEN FALSE
    ELSE LET number_str == to_string(n)
             num_digits == Len(number_str)
         IN  \E pattern_len \in 1..div_ceil(num_digits, 2) :
                 pattern_repeats(number_str, pattern_len)

\* u64::ilog10 of a positive number: the base 10 logarithm, rounded down.
RECURSIVE ilog10(_)
ilog10(n) == IF n < 10 THEN 0 ELSE 1 + ilog10(n \div 10)

\* Mutant: the logarithm is taken for the number of digits.
num_digits_without_one(n) == ilog10(n)

\* let num_digits = number.ilog10() + 1;
num_digits_of(n) == ilog10(n) + 1

\* is_invalid_part_one(number), for a number ilog10 accepts (number > 0).
is_invalid_part_one(n) ==
    LET num_digits == num_digits_of(n)
    IN  IF num_digits % 2 = 1 THEN FALSE
        ELSE LET upper_half == n \div Pow10(num_digits \div 2)
                 lower_half == n % Pow10(num_digits \div 2)
             IN  upper_half = lower_half

\* The numbers of the model, by their digits.
RECURSIVE NumbersOfLength(_)
NumbersOfLength(len) ==
    IF len = 1 THEN 1..MaxDigit
    ELSE {10 * n + d : n \in NumbersOfLength(len - 1), d \in 0..MaxDigit}

\* Every single-digit number, and the numbers of up to MaxDigits digits.
Numbers02 == (0..9) \cup UNION {NumbersOfLength(len) : len \in 1..MaxDigits}

InitDay02 ==
    /\ number \in Numbers02
    /\ invalid_part_one = NoValue
    /\ invalid_part_two = NoValue
    /\ pc02 = "call"
    /\ Idle01 /\ Idle10 /\ Idle05 /\ Idle08 /\ Idle09 /\ IdleLib

CheckPartTwo ==
    /\ pc02 = "call"
    /\ invalid_part_two' = is_invalid_part_two(number)
    /\ pc02' = "done"
    /\ UNCHANGED <<number, invalid_part_one>>

\* Part::One => is_invalid_part_one; ilog10 panics on 0 ("argument of integer
\* logarithm must be positive").
CheckPartOne ==
    /\ pc02 = "call"
    /\ IF number = 0
       THEN pc02' = "panicked_one" /\ UNCHANGED invalid_part_one
       ELSE /\ invalid_part_one' = is_invalid_part_one(number)
            /\ pc02' = "returned_one"
    /\ UNCHANGED <<number, invalid_part_two>>

NextDay02 ==
    \/ CheckPartTwo /\ UNCHANGED others02
    \/ CheckPartOne /\ UNCHANGED others02

SpecDay02 == InitDay02 /\ [][NextDay02]_vars

\* Reference: the decimal digit at position i (from the least significant,
\* i = 0) and the number of decimal digits, by arithmetic.
DigitAt(n, i) == (n \div Pow10(i)) % 10

DigitCount(n) == CHOOSE k \in 1..20 : Pow10(k - 1) <= n /\ n < Pow10(k)

\* The decimal string of n is `blocks` equal blocks, one after the other.
IsBlockRepetition(n, blocks) ==
    LET len == DigitCount(n)
    IN  /\ len % blocks = 0
        /\ \A i \in 0..(len - 1) :
               DigitAt(n, i) = DigitAt(n, i % (len \div blocks))

\* C8: for n >= 1, is_invalid_part_two(n) is true exactly when the decimal
\* string of n splits into at least 2 equal-length identical blocks with no
\* remainder.
C8_PartTwoFlagsBlockRepetitions ==
    (pc02 = "done" /\ number >= 1) =>
        (invalid_part_two
            <=> \E blocks \in 2..DigitCount(number) : IsBlockRepetition(number, blocks))

\* A number of three blocks of two digits has been flagged.
C8_Witness ==
    /\ pc02 = "done"
    /\ number = 121212
    /\ invalid_part_two = TRUE

\* C16: for every single-digit number n (0 through 9), is_invalid_part_one(n)
\* and is_invalid_part_two(n) both return false (so the filter of
\* find_invalid_ids keeps no single-digit number, for either part).
C16_SingleDigitsAreValid ==
    (number \in 0..9 /\ pc02 # "call") =>
        /\ pc02 \in {"done", "returned_one"}
        /\ pc02 = "done" => invalid_part_two = FALSE
        /\ pc02 = "returned_one" => invalid_part_one = FALSE

\* C16 for the single-digit numbers 1 through 9 (diagnostic).
PositiveSingleDigitsAreValid ==
    (number \in 1..9 /\ pc02 # "call") =>
        /\ pc02 \in {"done", "returned_one"}
        /\ pc02 = "done" => invalid_part_two = FALSE
        /\ pc02 = "returned_one" => invalid_part_one = FALSE

\* Reference: the decimal string of n has an even number of digits and its
\* first half equals its second half, digit by digit.
HalvesAreEqual(n) ==
    LET len == DigitCount(n)
    IN  /\ len % 2 = 0
        /\ \A i \in 0..((len \div 2) - 1) :
               DigitAt(n, i) = DigitAt(n, i + (len \div 2))

\* C17: for n >= 1, is_invalid_part_one(n) returns, and returns true exactly
\* when the decimal string of n has an even number of digits and its first
\* half equals its second half; a number with an odd number of digits is
\* valid.
C17_PartOneFlagsEqualHalves ==
    /\ (pc02 = "panicked_one") => number < 1
    /\ (pc02 = "returned_one" /\ number >= 1) =>
           /\ invalid_part_one <=> HalvesAreEqual(number)
           /\ DigitCount(number) % 2 = 1 => invalid_part_one = FALSE

\* A number whose halves are both "10" has been flagged.
C17_Witness ==
    /\ pc02 = "returned_one"
    /\ number = 1010
    /\ invalid_part_one = TRUE

-----------------------------------------------------------------------------
(* coords/compressed_coords_2d.rs and day09.rs, part two                    *)

Coords2D(x, y) == [x |-> x, y |-> y]

Min(a, b) == IF a <= b THEN a ELSE b

\* abs_diff
abs_diff(a, b) == IF a >= b THEN a - b ELSE b - a

\* rect_area(a, b)
rect_area(a, b) == (abs_diff(a.x, b.x) + 1) * (abs_diff(a.y, b.y) + 1)

\* .sorted().dedup(): the distinct values of a set, ascending, as a sequence.
RECURSIVE sorted_dedup(_)
sorted_dedup(values) ==
    IF values = {} THEN <<>>
    ELSE LET least == CHOOSE v \in values : \A w \in values : v <= w
         IN  <<least>> \o sorted_dedup(values \ {least})

\* Mutant: the new indexes are counted from 1.
get_by_left_from_one(old_to_new, old) ==
    CHOOSE i \in 1..Len(old_to_new) : old_to_new[i] = old

\* BiMap::get_by_left on the map .enumerate() built: old value -> new index
\* (from 0); the value is in the map.
get_by_left(old_to_new, old) ==
    (CHOOSE i \in 1..Len(old_to_new) : old_to_new[i] = old) - 1

\* CompressedCoords2D::from_coords; each bijective map is kept as the
\* sequence of the old values in the order of the new ones.
from_coords(cs) ==
    LET x_old_to_new_map == sorted_dedup({cs[i].x : i \in 1..Len(cs)})
        y_old_to_new_map == sorted_dedup({cs[i].y : i \in 1..Len(cs)})
    IN  [coords |-> [i \in 1..Len(cs) |->
                        Coords2D(get_by_left(x_old_to_new_map, cs[i].x),
                                 get_by_left(y_old_to_new_map, cs[i].y))],
         x_old_to_new_map |-> x_old_to_new_map,
         y_old_to_new_map |-> y_old_to_new_map]

\* len().saturating_sub(1)
max_x(cc) == IF Len(cc.x_old_to_new_map) = 0 THEN 0 ELSE Len(cc.x_old_to_new_map) - 1
max_y(cc) == IF Len(cc.y_old_to_new_map) = 0 THEN 0 ELSE Len(cc.y_old_to_new_map) - 1

\* BiMap::get_by_right: Option<i64> as a set, {} for None and {v} for Some(v).
get_by_right(old_to_new, new) ==
    IF new \in 0..(Len(old_to_new) - 1) THEN {old_to_new[new + 1]} ELSE {}

\* CompressedCoords2D::to_original: Option<Coords2D> as a set, {} for None
\* and {c} for Some(c).
to_original(cc, c) ==
    {Coords2D(x, y) : x \in get_by_right(cc.x_old_to_new_map, c.x),
                      y \in get_by_right(cc.y_old_to_new_map, c.y)}

\* Option::unwrap of a Some.
unwrap(option) == CHOOSE v \in option : TRUE

\* Grid<Cell>: rows, cols and the cells by <<row, col>>, both from 0.
InGrid(g, row, col) == row \in 0..(g.rows - 1) /\ col \in 0..(g.cols - 1)

\* Grid::get(row, col): NoValue for None.
grid_get(g, row, col) == IF InGrid(g, row, col) THEN g.cells[<<row, col>>] ELSE NoValue

\* if let Some(cell) = grid.get_mut(row, col) { *cell = value }
grid_set(g, row, col, value) ==
    IF InGrid(g, row, col)
    THEN [g EXCEPT !.cells = [g.cells EXCEPT ![<<row, col>>] = value]]
    ELSE g

\* Cell::is_tile
is_tile(cell) == cell = "Red" \/ cell = "Green"

\* make_cell_grid(coords, rows, cols)
make_cell_grid(cs, rows, cols) ==
    [rows |-> rows, cols |-> cols,
     cells |-> [rc \in (0..(rows - 1)) \X (0..(cols - 1)) |->
                   IF \E i \in 1..Len(cs) : cs[i].y = rc[1] /\ cs[i].x = rc[2]
                   THEN "Red" ELSE "Empty"]]

make_cell_grid_from_compressed_coords(cc) ==
    make_cell_grid(cc.coords, max_y(cc) + 1, max_x(cc) + 1)

\* The cells one window (a, b) of connect_red_tiles turns green.
segment_cells(a, b) ==
    (IF a.x = b.x
     THEN {<<y, a.x>> : y \in (Min(a.y, b.y) + 1)..(Max(a.y, b.y) - 1)}
     ELSE {})
    \cup
    (IF a.y = b.y
     THEN {<<a.y, x>> : x \in (Min(a.x, b.x) + 1)..(Max(a.x, b.x) - 1)}
     ELSE {})

\* connect_red_tiles: the windows are (coords[i], coords[i+1]) and, wrapping,
\* (coords[last], coords[first]).
connect_red_tiles(g, cs) ==
    LET green == UNION {segment_cells(cs[i], cs[(i % Len(cs)) + 1]) :
                            i \in 1..Len(cs)}
    IN  [g EXCEPT !.cells =
            [rc \in DOMAIN g.cells |->
                IF rc \in green THEN "Green" ELSE g.cells[rc]]]

\* (lo..=hi).rev() as a sequence: hi, hi - 1, .., lo.
rev_range(lo, hi) == [i \in 1..(IF hi >= lo THEN hi - lo + 1 ELSE 0) |-> hi + 1 - i]

\* The ray cast of find_first_inside_point (day09.rs:221-249) from column x
\* down to column 0: the boundary_cross_indexes at the end of the loop.
RECURSIVE cast_ray(_, _, _, _, _)
cast_ray(g, row, x, boundary_cross_indexes, inside_boundary) ==
    IF x < 0 THEN boundary_cross_indexes
    ELSE
      LET cell == g.cells[<<row, x>>]
      IN  IF is_tile(cell) /\ ~inside_boundary
          THEN cast_ray(g, row, x - 1, Append(boundary_cross_indexes, x), TRUE)
          ELSE IF ~is_tile(cell) /\ inside_boundary
          THEN
            LET after_red == IF g.cells[<<row, x + 1>>] = "Red"
                             THEN Append(boundary_cross_indexes, x + 1)
                             ELSE boundary_cross_indexes
                last_boundary_cross_index == after_red[Len(after_red)]
                all_green == \A c \in (x + 1)..last_boundary_cross_index :
                                 g.cells[<<row, c>>] = "Green"
                after_green == IF all_green
                               THEN after_red \o rev_range(x + 1, last_boundary_cross_index - 1)
                               ELSE after_red
            IN  cast_ray(g, row, x - 1, after_green, FALSE)
          ELSE cast_ray(g, row, x - 1, boundary_cross_indexes, inside_boundary)

\* The test of one cell in find_first_inside_point.
is_inside_point(g, row, col) ==
    /\ g.cells[<<row, col>>] = "Empty"
    /\ Len(cast_ray(g, row, col - 1, <<>>, FALSE)) % 2 = 1

\* find_first_inside_point: rows 1..rows-2 top to bottom, columns 1..cols-2
\* left to right; Option<Coords2D> as a set, {} for None and {c} for Some(c).
find_first_inside_point(g) ==
    LET found == {rc \in (1..(g.rows - 2)) \X (1..(g.cols - 2)) :
                      is_inside_point(g, rc[1], rc[2])}
    IN  IF found = {} THEN {}
        ELSE LET first == CHOOSE rc \in found :
                              \A other \in found :
                                  \/ rc[1] < other[1]
                                  \/ (rc[1] = other[1] /\ rc[2] <= other[2])
             IN  {Coords2D(first[2], first[1])}

\* search_dirs without the step to the left.
search_dirs_without_left == <<<<0, 1>>, <<0, -1>>, <<1, 0>>>>

\* The neighbours fill_green_tiles pushes, in the order of search_dirs
\* [(0, 1), (0, -1), (1, 0), (-1, 0)] as (dx, dy).
search_dirs == <<<<0, 1>>, <<0, -1>>, <<1, 0>>, <<-1, 0>>>>

RECURSIVE empty_neighbours(_, _, _)
empty_neighbours(g, c, i) ==
    IF i > Len(search_dirs) THEN <<>>
    ELSE LET new_coords == Coords2D(c.x + search_dirs[i][1], c.y + search_dirs[i][2])
             rest == empty_neighbours(g, c, i + 1)
         IN  IF grid_get(g, new_coords.y, new_coords.x) = "Empty"
             THEN <<new_coords>> \o rest
             ELSE rest

\* is_rect_in_red_and_green(grid, a, b): the four sides of the rectangle.
is_rect_in_red_and_green(g, a, b) ==
    LET x1 == Min(a.x, b.x)
        x2 == Max(a.x, b.x)
        y1 == Min(a.y, b.y)
        y2 == Max(a.y, b.y)
    IN  /\ \A x \in x1..x2 :
               g.cells[<<y1, x>>] # "Empty" /\ g.cells[<<y2, x>>] # "Empty"
        /\ \A y \in y1..y2 :
               g.cells[<<y, x1>>] # "Empty" /\ g.cells[<<y, x2>>] # "Empty"

\* The areas the filter_map yields: one per combination of two red tiles
\* whose rectangle passes, measured in original coordinates.
satisfying_areas(cc, g) ==
    {rect_area(unwrap(to_original(cc, cc.coords[i])),
               unwrap(to_original(cc, cc.coords[j]))) :
        <<i, j>> \in {ij \in (1..Len(cc.coords)) \X (1..Len(cc.coords)) :
                         /\ ij[1] < ij[2]
                         /\ is_rect_in_red_and_green(g, cc.coords[ij[1]],
                                                     cc.coords[ij[2]])}}

SetMax(S) == CHOOSE v \in S : \A w \in S : w <= v

\* Bound of the model: every loop is also taken with its coordinates
\* multiplied by 1..MaxScale.
MaxScale == 2

\* The loops of the model, as the lists of their corners (red tiles): the
\* two loops of test_find_largest_red_and_green_rect_area, a rectangle, an L,
\* a U and a staircase.
PuzzleLoop ==
    <<Coords2D(7, 1), Coords2D(11, 1), Coords2D(11, 7), Coords2D(9, 7),
      Coords2D(9, 5), Coords2D(2, 5), Coords2D(2, 3), Coords2D(7, 3)>>

TwoRegionLoop ==
    <<Coords2D(1, 0), Coords2D(3, 0), Coords2D(3, 6), Coords2D(16, 6),
      Coords2D(16, 0), Coords2D(18, 0), Coords2D(18, 9), Coords2D(13, 9),
      Coords2D(13, 7), Coords2D(6, 7), Coords2D(6, 9), Coords2D(1, 9)>>

RectangleLoop ==
    <<Coords2D(0, 0), Coords2D(5, 0), Coords2D(5, 3), Coords2D(0, 3)>>

LLoop ==
    <<Coords2D(0, 0), Coords2D(4, 0), Coords2D(4, 2), Coords2D(2, 2),
      Coords2D(2, 5), Coords2D(0, 5)>>

ULoop ==
    <<Coords2D(0, 0), Coords2D(2, 0), Coords2D(2, 4), Coords2D(6, 4),
      Coords2D(6, 0), Coords2D(8, 0), Coords2D(8, 7), Coords2D(0, 7)>>

StairLoop ==
    <<Coords2D(0, 0), Coords2D(6, 0), Coords2D(6, 6), Coords2D(4, 6),
      Coords2D(4, 4), Coords2D(2, 4), Coords2D(2, 2), Coords2D(0, 2)>>

BaseLoops == {PuzzleLoop, TwoRegionLoop, RectangleLoop, LLoop, ULoop, StairLoop}

\* The same loop listed from its k-th corner on, in the same or in the
\* opposite direction, with the coordinates multiplied by `scale`.
LoopVariant(loop, k, reversed, scale) ==
    [i \in 1..Len(loop) |->
        LET j == IF reversed THEN ((k - i) % Len(loop)) + 1
                 ELSE ((k + i - 2) % Len(loop)) + 1
        IN  Coords2D(loop[j].x * scale, loop[j].y * scale)]

Loops ==
    UNION {{LoopVariant(loop, k, reversed, scale) :
               k \in 1..Len(loop), reversed \in BOOLEAN, scale \in 1..MaxScale} :
           loop \in BaseLoops}

InitDay09 ==
    /\ red_tiles \in Loops
    /\ compressed_coords = NoValue
    /\ grid = NoValue
    /\ start_coords = {}
    /\ coords_to_fill = <<>>
    /\ result09 = NoValue
    /\ pc09 = "compress"
    /\ Idle01 /\ Idle10 /\ Idle05 /\ Idle08 /\ Idle02 /\ IdleLib

\* let compressed_coords = CompressedCoords2D::from_coords(coords);
Compress ==
    /\ pc09 = "compress"
    /\ compressed_coords' = from_coords(red_tiles)
    /\ pc09' = "grid"
    /\ UNCHANGED <<red_tiles, grid, start_coords, coords_to_fill, result09>>

\* let mut grid = make_cell_grid_from_compressed_coords(&compressed_coords);
MakeGrid ==
    /\ pc09 = "grid"
    /\ grid' = make_cell_grid_from_compressed_coords(compressed_coords)
    /\ pc09' = "connect"
    /\ UNCHANGED <<red_tiles, compressed_coords, start_coords, coords_to_fill, result09>>

\* connect_red_tiles(&mut grid, &compressed_coords.coords);
ConnectRedTiles ==
    /\ pc09 = "connect"
    /\ grid' = connect_red_tiles(grid, compressed_coords.coords)
    /\ pc09' = "find"
    /\ UNCHANGED <<red_tiles, compressed_coords, start_coords, coords_to_fill, result09>>

\* if let Some(start_coords) = find_first_inside_point(&grid) { fill.. }
\* fill_green_tiles starts with coords_to_fill = vec![start].
FindInsidePoint ==
    /\ pc09 = "find"
    /\ start_coords' = find_first_inside_point(grid)
    /\ IF find_first_inside_point(grid) = {}
       THEN pc09' = "rects" /\ UNCHANGED coords_to_fill
       ELSE /\ pc09' = "fill"
            /\ coords_to_fill' = <<CHOOSE c \in find_first_inside_point(grid) : TRUE>>
    /\ UNCHANGED <<red_tiles, compressed_coords, grid, result09>>

\* One iteration of `while let Some(coords) = coords_to_fill.pop()`.
FillPop ==
    /\ pc09 = "fill"
    /\ coords_to_fill # <<>>
    /\ LET c == coords_to_fill[Len(coords_to_fill)]
           filled == grid_set(grid, c.y, c.x, "Green")
       IN  /\ grid' = filled
           /\ coords_to_fill' =
                  SubSeq(coords_to_fill, 1, Len(coords_to_fill) - 1)
                      \o empty_neighbours(filled, c, 1)
    /\ UNCHANGED <<red_tiles, compressed_coords, start_coords, result09, pc09>>

\* The stack is empty: fill_green_tiles returns.
FillDone ==
    /\ pc09 = "fill"
    /\ coords_to_fill = <<>>
    /\ pc09' = "rects"
    /\ UNCHANGED <<red_tiles, compressed_coords, grid, start_coords,
                   coords_to_fill, result09>>

\* The combinations, .max() and .expect(..) (day09.rs:121-137).
LargestSatisfyingRect ==
    /\ pc09 = "rects"
    /\ IF satisfying_areas(compressed_coords, grid) = {}
       THEN result09' = NoValue /\ pc09' = "panicked"
       ELSE /\ result09' = SetMax(satisfying_areas(compressed_coords, grid))
            /\ pc09' = "done"
    /\ UNCHANGED <<red_tiles, compressed_coords, grid, start_coords, coords_to_fill>>

NextDay09 ==
    \/ Compress /\ UNCHANGED others09
    \/ MakeGrid /\ UNCHANGED others09
    \/ ConnectRedTiles /\ UNCHANGED others09
    \/ FindInsidePoint /\ UNCHANGED others09
    \/ FillPop /\ UNCHANGED others09
    \/ FillDone /\ UNCHANGED others09
    \/ LargestSatisfyingRect /\ UNCHANGED others09

SpecDay09 == InitDay09 /\ [][NextDay09]_vars

\* Reference, in original coordinates: the tile p is on the loop, between two
\* consecutive red tiles (the last and the first included), ends included.
OnLoop(tiles, p) ==
    \E i \in 1..Len(tiles) :
        LET a == tiles[i]
            b == tiles[(i % Len(tiles)) + 1]
        IN  \/ /\ a.x = b.x /\ p.x = a.x
               /\ Min(a.y, b.y) <= p.y /\ p.y <= Max(a.y, b.y)
            \/ /\ a.y = b.y /\ p.y = a.y
               /\ Min(a.x, b.x) <= p.x /\ p.x <= Max(a.x, b.x)

\* The even-odd rule for a tile off the loop: a ray to the left crosses an odd
\* number of vertical sides (a side counts for its lower end, not its upper).
InsideLoop(tiles, p) ==
    Cardinality({i \in 1..Len(tiles) :
        LET a == tiles[i]
            b == tiles[(i % Len(tiles)) + 1]
        IN  /\ a.x = b.x /\ a.x < p.x
            /\ Min(a.y, b.y) <= p.y /\ p.y < Max(a.y, b.y)}) % 2 = 1

RedOrGreen(tiles, p) == OnLoop(tiles, p) \/ InsideLoop(tiles, p)

RectAllRedOrGreen(tiles, a, b) ==
    \A x \in Min(a.x, b.x)..Max(a.x, b.x), y \in Min(a.y, b.y)..Max(a.y, b.y) :
        RedOrGreen(tiles, Coords2D(x, y))

LargestRedAndGreenRectArea(tiles) ==
    SetMax({rect_area(tiles[ij[1]], tiles[ij[2]]) :
               ij \in {ij \in (1..Len(tiles)) \X (1..Len(tiles)) :
                          /\ ij[1] < ij[2]
                          /\ RectAllRedOrGreen(tiles, tiles[ij[1]], tiles[ij[2]])}})

\* C9: for red tiles tracing a closed rectilinear loop, the result is the
\* largest area of a rectangle with two red tiles as opposite corners whose
\* tiles are all red or green (on the loop or inside it).
C9_LargestRedAndGreenRect ==
    pc09 \in {"done", "panicked"} =>
        /\ pc09 = "done"
        /\ result09 = LargestRedAndGreenRectArea(red_tiles)

\* The two loops of the test, as given there (diagnostic): 24 for the puzzle
\* example, and 64 for the loop whose expected answer is 30; on that loop the
\* fill leaves the second empty region, compressed cell (4, 2), Empty.
TestLoopResults ==
    /\ (pc09 = "done" /\ red_tiles = TwoRegionLoop) =>
           /\ grid.cells[<<2, 1>>] = "Green"
           /\ grid.cells[<<2, 4>>] = "Empty"
           /\ InsideLoop(red_tiles,
                         unwrap(to_original(compressed_coords, Coords2D(4, 2))))
    /\ (pc09 = "done" /\ red_tiles = PuzzleLoop) =>
           result09 = 24 /\ LargestRedAndGreenRectArea(red_tiles) = 24
    /\ (pc09 = "done" /\ red_tiles = TwoRegionLoop) =>
           result09 = 64 /\ LargestRedAndGreenRectArea(red_tiles) = 30

-----------------------------------------------------------------------------
(* coords/compressed_coords_2d.rs, from_coords and to_original              *)

\* Bound of the model: a list holds at most MaxCoordsLen coordinates.
MaxCoordsLen == 3

\* The coordinate values of the model: sparse, of both signs.
CoordValues == {-15000, 0, 20000}

CoordLists ==
    UNION {[1..n -> {Coords2D(x, y) : x \in CoordValues, y \in CoordValues}] :
              n \in 0..MaxCoordsLen}

\* The arguments of to_original in the model: the compressed range, one below
\* and one and two above.
Queries ==
    {Coords2D(x, y) : x \in (-1)..(MaxCoordsLen + 1), y \in (-1)..(MaxCoordsLen + 1)}

InitCompressed ==
    /\ cc_input \in CoordLists
    /\ cc_compressed = NoValue
    /\ cc_query = NoValue
    /\ cc_original = {}
    /\ pc_cc = "call"
    /\ IdleSolvers /\ IdleTrip /\ IdleEdge /\ IdleGrid /\ IdleNew

\* CompressedCoords2D::from_coords(&coords)
FromCoords ==
    /\ pc_cc = "call"
    /\ cc_compressed' = from_coords(cc_input)
    /\ pc_cc' = "compressed"
    /\ UNCHANGED <<cc_input, cc_query, cc_original>>

\* compressed.to_original(&query)
ToOriginal(query) ==
    /\ pc_cc = "compressed"
    /\ cc_query' = query
    /\ cc_original' = to_original(cc_compressed, query)
    /\ pc_cc' = "queried"
    /\ UNCHANGED <<cc_input, cc_compressed>>

NextCompressed ==
    \/ FromCoords /\ UNCHANGED others_cc
    \/ /\ \E query \in Queries : ToOriginal(query)
       /\ UNCHANGED others_cc

SpecCompressed == InitCompressed /\ [][NextCompressed]_vars

\* The compressed x (y) values are the whole range 0..=max_x (0..=max_y), and
\* two coordinates compare in x (y) as their compressed coordinates do.
DenseAndOrderPreserving(cs, cc) ==
    /\ Len(cc.coords) = Len(cs)
    /\ {cc.coords[i].x : i \in 1..Len(cs)} = 0..max_x(cc)
    /\ {cc.coords[i].y : i \in 1..Len(cs)} = 0..max_y(cc)
    /\ \A i, j \in 1..Len(cs) :
           /\ cs[i].x < cs[j].x <=> cc.coords[i].x < cc.coords[j].x
           /\ cs[i].y < cs[j].y <=> cc.coords[i].y < cc.coords[j].y

\* to_original takes the i-th compressed coordinate back to the i-th input
\* coordinate.
ToOriginalInverts(cs, cc) ==
    \A i \in 1..Len(cs) : to_original(cc, cc.coords[i]) = {cs[i]}

\* to_original has returned None if the query is outside the compressed range.
NoneOutsideRange ==
    (pc_cc = "queried"
        /\ ~(/\ cc_query.x \in 0..max_x(cc_compressed)
             /\ cc_query.y \in 0..max_y(cc_compressed)))
        => cc_original = {}

\* C19: from_coords maps the distinct x values of the input (and the distinct
\* y values) bijectively and order-preservingly onto 0..=max_x (0..=max_y),
\* keeps the input order, to_original inverts it on every compressed
\* coordinate, and to_original returns None outside the compressed range.
C19_CompressionIsDenseAndInvertible ==
    /\ pc_cc \in {"compressed", "queried"} =>
           /\ DenseAndOrderPreserving(cc_input, cc_compressed)
           /\ ToOriginalInverts(cc_input, cc_compressed)
    /\ NoneOutsideRange

\* C19 for a list of at least one coordinate.
C19_NonEmptyCompressionIsDenseAndInvertible ==
    /\ (pc_cc \in {"compressed", "queried"} /\ cc_input # <<>>) =>
           /\ DenseAndOrderPreserving(cc_input, cc_compressed)
           /\ ToOriginalInverts(cc_input, cc_compressed)
    /\ NoneOutsideRange

\* Three coordinates with a repeated x value have been compressed to two
\* columns and three rows, and a query of the last column has been answered.
C19_Witness ==
    /\ pc_cc = "queried"
    /\ Len(cc_input) = 3
    /\ max_x(cc_compressed) = 1
    /\ max_y(cc_compressed) = 2
    /\ cc_input[1].x > cc_input[2].x
    /\ cc_query = Coords2D(1, 2)
    /\ cc_original # {}

-----------------------------------------------------------------------------
(* Malformed input: day01.rs, solve_day01, and grid.rs, parse_string_to_grid *)

\* Bounds of the model.
MaxBadLines == 2        \* lines per input of solve_day01
MaxGridRows == 3        \* lines per input of parse_string_to_grid
MaxGridCols == 2        \* characters per line

\* Lines of solve_day01, well-formed and not: a first character that is L, not
\* L but one byte long, or two bytes long, followed by nothing, an integer, a
\* signed integer, a sign alone, a letter, or digits and a letter.
BadLineSamples ==
    {<<c>> \o r : c \in {"L", "X", "U+00E9"},
                  r \in {<<>>, <<"5">>, <<"-", "5">>, <<"+">>, <<"x">>, <<"5", "x">>}}

BadInputs01 == UNION {[1..n -> BadLineSamples] : n \in 0..MaxBadLines}

InitBadDay01 ==
    /\ input \in BadInputs01
    /\ part \in {"One", "Two"}
    /\ line_idx = 0
    /\ dial_position = INITIAL_DIAL_POSITION
    /\ final_pos_zero_hit_count = 0
    /\ total_zero_hit_count = 0
    /\ result01 = NoValue
    /\ pc01 = "loop"
    /\ IdleCall
    /\ Idle10 /\ Idle05 /\ Idle08 /\ Idle02 /\ Idle09 /\ IdleLib

\* str::len: the length in bytes.
RECURSIVE str_len(_)
str_len(line) ==
    IF line = <<>> THEN 0 ELSE len_utf8(Head(line)) + str_len(Tail(line))

\* The parser of test_parse_string_to_grid, char_to_digit: Result<Digit> as a
\* set, {} for Err and {d} for Ok(d).
char_to_digit(ch) ==
    IF ch = "0" THEN {"Zero"} ELSE IF ch = "1" THEN {"One"} ELSE {}

\* flat_map(|line| line.chars().map(&parser)..): the results for every
\* character of every line, in order.
RECURSIVE parse_cells(_)
parse_cells(lines) ==
    IF lines = <<>> THEN <<>>
    ELSE [i \in 1..Len(Head(lines)) |-> char_to_digit(Head(lines)[i])]
             \o parse_cells(Tail(lines))

GridErr(message) == [ok |-> FALSE, message |-> message]
GridOk(g) == [ok |-> TRUE, grid |-> g]

\* Grid::from_vec(cells, cols) of the grid crate: an empty vector gives the
\* empty grid; the length of a non-empty one has to be a multiple of cols.
from_vec_panics(cells, cols) ==
    cells # <<>> /\ (cols = 0 \/ Len(cells) % cols # 0)

from_vec(cells, cols) ==
    IF cells = <<>> THEN [rows |-> 0, cols |-> 0, cells |-> <<>>]
    ELSE [rows |-> Len(cells) \div cols, cols |-> cols, cells |-> cells]

\* Lines of up to MaxGridCols characters: the two digits the parser accepts,
\* a letter, and a character of two bytes.
GridLines ==
    UNION {[1..n -> {"0", "1", "x", "U+00E9"}] : n \in 0..MaxGridCols}

GridInputs == UNION {[1..n -> GridLines] : n \in 0..MaxGridRows}

InitGrid ==
    /\ grid_input \in GridInputs
    /\ grid_result = NoValue
    /\ pc_grid = "call"
    /\ IdleSolvers /\ IdleTrip /\ IdleEdge /\ IdleCc /\ IdleNew

\* parse_string_to_grid(input, char_to_digit)
ParseStringToGrid ==
    /\ pc_grid = "call"
    /\ LET lines == grid_input
           width == IF lines = <<>> THEN 0 ELSE str_len(lines[1])
           results == parse_cells(lines)
           cells == [i \in 1..Len(results) |-> unwrap(results[i])]
       IN  IF \E i \in 2..Len(lines) : str_len(lines[i]) # width
           THEN /\ grid_result' = GridErr("Width of each line should be equal")
                /\ pc_grid' = "done"
           ELSE IF \E i \in 1..Len(results) : results[i] = {}
           THEN /\ grid_result' = GridErr("Invalid character")
                /\ pc_grid' = "done"
           ELSE IF from_vec_panics(cells, width)
           THEN /\ pc_grid' = "panicked"
                /\ UNCHANGED grid_result
           ELSE /\ grid_result' = GridOk(from_vec(cells, width))
                /\ pc_grid' = "done"
    /\ UNCHANGED grid_input

\* Either function is given an input.
InitMalformed == InitBadDay01 \/ InitGrid

NextMalformed ==
    \/ ProcessRotation /\ UNCHANGED others01
    \/ ReturnDay01 /\ UNCHANGED others01
    \/ ParseStringToGrid /\ UNCHANGED others_grid

SpecMalformed == InitMalformed /\ [][NextMalformed]_vars

\* Reference: the characters after the first are an integer, an optional sign
\* and at least one digit.
IsInteger(chars) ==
    \/ (chars # <<>> /\ \A i \in 1..Len(chars) : IsDigitChar(chars[i]))
    \/ /\ Len(chars) >= 2
       /\ chars[1] \in {"+", "-"}
       /\ \A i \in 2..Len(chars) : IsDigitChar(chars[i])

\* The first character is not L or R, or the remainder is not an integer.
MalformedLine(l) == l[1] \notin {"L", "R"} \/ ~IsInteger(Tail(l))

HasMalformedLine(lines) == \E i \in 1..Len(lines) : MalformedLine(lines[i])

FirstMalformedLine(lines) ==
    lines[CHOOSE i \in 1..Len(lines) :
              /\ MalformedLine(lines[i])
              /\ \A j \in 1..(i - 1) : ~MalformedLine(lines[j])]

\* solve_day01 on an input with a malformed line returns
\* Err(InvalidInput(line)) with the first such line.
MalformedRotationIsReported ==
    (pc01 \in {"done", "panicked"} /\ HasMalformedLine(input)) =>
        /\ pc01 = "done"
        /\ result01 = InvalidInput(FirstMalformedLine(input))

\* parse_string_to_grid returns Err when a row's width differs from the first
\* row's or the parser rejects a character.
MalformedGridIsAnError ==
    (/\ pc_grid \in {"done", "panicked"}
     /\ \/ \E i \in 2..Len(grid_input) : Len(grid_input[i]) # Len(grid_input[1])
        \/ \E i \in 1..Len(grid_input) :
               \E j \in 1..Len(grid_input[i]) : char_to_digit(grid_input[i][j]) = {})
        => (pc_grid = "done" /\ ~grid_result.ok)

\* C20: malformed input yields an error and never an answer: solve_day01
\* returns Err(InvalidInput(line)) with the first line whose first character
\* is not L or R or whose remainder is not an integer, whatever the later
\* lines are; parse_string_to_grid returns Err when a row's width differs from
\* the first row's or the parser rejects a character.
C20_MalformedInputIsAnError ==
    /\ MalformedRotationIsReported
    /\ MalformedGridIsAnError

\* C20 for solve_day01 apart from the lines whose first character is longer
\* than one byte (diagnostic): there the slicing panics.
MalformedOneByteRotationIsReported ==
    (/\ pc01 \in {"done", "panicked"}
     /\ HasMalformedLine(input)
     /\ len_utf8(FirstMalformedLine(input)[1]) = 1) =>
        /\ pc01 = "done"
        /\ result01 = InvalidInput(FirstMalformedLine(input))

\* A well-formed input of parse_string_to_grid gives the grid of its rows
\* (diagnostic).
WellFormedGridIsParsed ==
    (/\ pc_grid \in {"done", "panicked"}
     /\ grid_input # <<>>
     /\ \A i \in 1..Len(grid_input) :
            /\ Len(grid_input[i]) = Len(grid_input[1])
            /\ Len(grid_input[i]) > 0
            /\ \A j \in 1..Len(grid_input[i]) : char_to_digit(grid_input[i][j]) # {})
        => /\ pc_grid = "done"
           /\ grid_result.ok
           /\ grid_result.grid.rows = Len(grid_input)
           /\ grid_result.grid.cols = Len(grid_input[1])

-----------------------------------------------------------------------------
(* bin/day01.rs .. bin/day10.rs, main: read the input file, solve the two   *)
(* parts, print the two answers.  The answers of the solvers are inputs of  *)
(* this specification.                                                      *)

MaxAnswer == 2              \* answers of the solvers range over 0..MaxAnswer

Days == 1..10

\* println!("Part {k} Solution: {n}")
SolutionLine(k, n) == [part |-> k, solution |-> n]

\* day10.rs:120-123: the call of solve_day10(input, Part::Two) and the println!
\* of its answer are commented out; the other nine binaries have both.
solves_part_two(day) == day # 10

\* day10.rs:12-15: Part::Two => todo!()
solve_day10_returns(p) == p = "One"

InitMain ==
    /\ main_day \in Days
    /\ part_1_solution = {} /\ part_2_solution = {} /\ stdout = <<>>
    /\ solve10_part = NoValue /\ solve10_result = {}
    /\ pc_main = "read_input"
    /\ IdleOld /\ IdleNewBut("main")

InitSolveDay10 ==
    /\ main_day = 10
    /\ part_1_solution = {} /\ part_2_solution = {} /\ stdout = <<>>
    /\ solve10_part \in {"One", "Two"} /\ solve10_result = {}
    /\ pc_main = "call_solve_day10"
    /\ IdleOld /\ IdleNewBut("main")

\* let input = fs::read_to_string("puzzle_inputs/dayNN.txt")?;
ReadInput ==
    /\ pc_main = "read_input"
    /\ pc_main' = "solve_one"
    /\ UNCHANGED <<main_day, part_1_solution, part_2_solution, stdout,
                   solve10_part, solve10_result>>

\* let part_1_solution = solve_dayNN(input, Part::One);
SolvePartOne ==
    /\ pc_main = "solve_one"
    /\ \E n \in 0..MaxAnswer : part_1_solution' = {n}
    /\ pc_main' = IF solves_part_two(main_day) THEN "solve_two" ELSE "print_one"
    /\ UNCHANGED <<main_day, part_2_solution, stdout, solve10_part, solve10_result>>

\* let part_2_solution = solve_dayNN(input, Part::Two);
SolvePartTwo ==
    /\ pc_main = "solve_two"
    /\ \E n \in 0..MaxAnswer : part_2_solution' = {n}
    /\ pc_main' = "print_one"
    /\ UNCHANGED <<main_day, part_1_solution, stdout, solve10_part, solve10_result>>

\* println!("Part 1 Solution: {part_1_solution}");
PrintPartOne ==
    /\ pc_main = "print_one"
    /\ stdout' = Append(stdout, SolutionLine(1, unwrap(part_1_solution)))
    /\ pc_main' = IF solves_part_two(main_day) THEN "print_two" ELSE "return"
    /\ UNCHANGED <<main_day, part_1_solution, part_2_solution,
                   solve10_part, solve10_result>>

\* println!("Part 2 Solution: {part_2_solution}");
PrintPartTwo ==
    /\ pc_main = "print_two"
    /\ stdout' = Append(stdout, SolutionLine(2, unwrap(part_2_solution)))
    /\ pc_main' = "return"
    /\ UNCHANGED <<main_day, part_1_solution, part_2_solution,
                   solve10_part, solve10_result>>

\* Ok(())
ReturnOk ==
    /\ pc_main = "return"
    /\ pc_main' = "exited"
    /\ UNCHANGED <<main_day, part_1_solution, part_2_solution, stdout,
                   solve10_part, solve10_result>>

\* solve_day10(input, part): the sum of the machines' presses, or todo!().
CallSolveDay10 ==
    /\ pc_main = "call_solve_day10"
    /\ IF solve_day10_returns(solve10_part)
         THEN /\ \E n \in 0..MaxAnswer : solve10_result' = {n}
              /\ pc_main' = "returned"
         ELSE /\ solve10_result' = {}
              /\ pc_main' = "panicked"
    /\ UNCHANGED <<main_day, part_1_solution, part_2_solution, stdout, solve10_part>>

NextMain ==
    \/ ReadInput /\ UNCHANGED others_main
    \/ SolvePartOne /\ UNCHANGED others_main
    \/ SolvePartTwo /\ UNCHANGED others_main
    \/ PrintPartOne /\ UNCHANGED others_main
    \/ PrintPartTwo /\ UNCHANGED others_main
    \/ ReturnOk /\ UNCHANGED others_main
    \/ CallSolveDay10 /\ UNCHANGED others_main

SpecMain == (InitMain \/ InitSolveDay10) /\ [][NextMain]_vars

\* The output of a binary that exited is the line of Part 1 followed by the
\* line of Part 2.
TwoLinesInOrder ==
    pc_main = "exited" =>
        /\ part_1_solution # {} /\ part_2_solution # {}
        /\ stdout = <<SolutionLine(1, unwrap(part_1_solution)),
                      SolutionLine(2, unwrap(part_2_solution))>>

\* C21: every binary, day01 to day10, computes both parts and prints exactly
\* two lines, "Part 1 Solution: N" then "Part 2 Solution: N"; solve_day10
\* returns a number for Part::Two as for Part::One.
C21_EveryBinaryPrintsBothParts ==
    /\ TwoLinesInOrder
    /\ pc_main \in {"returned", "panicked"} =>
           (pc_main = "returned" /\ solve10_result # {})

\* C21 for the binaries day01 .. day09 (diagnostic).
FirstNineBinariesPrintBothParts == main_day # 10 => TwoLinesInOrder

-----------------------------------------------------------------------------
(* day03.rs, largest_joltage                                                *)

MaxJoltDigit == 3           \* the digits of a row are in 1..MaxJoltDigit
MaxRowLen == 4              \* digits per row

\* get_digit(row, index): the one-character slice at a 0-based index.
get_digit(r, index) == r[index + 1]

\* result.parse(): the number the selected digits spell.
RECURSIVE parse_digits(_)
parse_digits(ds) ==
    IF ds = <<>> THEN 0
    ELSE 10 * parse_digits(SubSeq(ds, 1, Len(ds) - 1)) + ds[Len(ds)]

\* first_movable without the check that the remaining digits fit in the row.
first_movable_without_room(r, n, indexes, p) ==
    LET movable == {di \in 0..(n - 1) :
                        /\ p > indexes[di + 1]
                        /\ get_digit(r, p) > get_digit(r, indexes[di + 1])}
    IN  IF movable = {} THEN {}
        ELSE {CHOOSE di \in movable : \A other \in movable : di <= other}

\* The first digit_index of the for loop whose condition holds (day03.rs:39-42),
\* as an Option.
first_movable(r, n, indexes, p) ==
    LET movable == {di \in 0..(n - 1) :
                        /\ p > indexes[di + 1]
                        /\ get_digit(r, p) > get_digit(r, indexes[di + 1])
                        /\ p + (n - di) - 1 < Len(r)}
    IN  IF movable = {} THEN {}
        ELSE {CHOOSE di \in movable : \A other \in movable : di <= other}

\* (digit_index..target_num).for_each(|i| digit_indexes[i] = pointer + i - digit_index)
move_digits(indexes, n, p, di) ==
    [k \in 1..n |-> IF k - 1 >= di THEN p + (k - 1) - di ELSE indexes[k]]

Rows03 == UNION {[1..len -> 1..MaxJoltDigit] : len \in 1..MaxRowLen}

InitDay03 ==
    /\ row03 \in Rows03
    /\ target_num \in 1..Len(row03)
    /\ digit_indexes = [k \in 1..target_num |-> k - 1]
    /\ pointer = 1
    /\ result03 = {}
    /\ pc03 = "pointer_loop"
    /\ IdleOld /\ IdleNewBut("day03")

\* One iteration of 'pointer_loop.
PointerLoop ==
    /\ pc03 = "pointer_loop"
    /\ pointer < Len(row03)
    /\ LET found == first_movable(row03, target_num, digit_indexes, pointer)
       IN  IF found # {}
             THEN LET di == unwrap(found)
                      moved == move_digits(digit_indexes, target_num, pointer, di)
                  IN  /\ digit_indexes' = moved
                      /\ pointer' = moved[di + 1] + 1
             ELSE /\ pointer' = pointer + 1
                  /\ UNCHANGED digit_indexes
    /\ UNCHANGED <<row03, target_num, result03, pc03>>

\* The loop is left: the selected digits are joined and parsed.
ReturnJoltage ==
    /\ pc03 = "pointer_loop"
    /\ pointer >= Len(row03)
    /\ IF \A k \in 1..target_num : digit_indexes[k] + 1 <= Len(row03)
         THEN /\ result03' = {parse_digits([k \in 1..target_num |->
                                               get_digit(row03, digit_indexes[k])])}
              /\ pc03' = "returned"
         ELSE /\ result03' = {}
              /\ pc03' = "panicked"
    /\ UNCHANGED <<row03, target_num, digit_indexes, pointer>>

NextDay03 ==
    \/ PointerLoop /\ UNCHANGED others_day03
    \/ ReturnJoltage /\ UNCHANGED others_day03

SpecDay03 == InitDay03 /\ [][NextDay03]_vars

FairSpecDay03 == SpecDay03 /\ WF_vars(NextDay03)

\* Reference: the selections of n digits of a row, as sets of positions.
Selections(r, n) == {sel \in SUBSET (1..Len(r)) : Cardinality(sel) = n}

\* Reference: the number the digits at the positions of a selection spell,
\* read from left to right.
RECURSIVE SelectionValue(_, _)
SelectionValue(r, sel) ==
    IF sel = {} THEN 0
    ELSE LET last == CHOOSE k \in sel : \A other \in sel : other <= k
         IN  10 * SelectionValue(r, sel \ {last}) + r[last]

\* Reference: the largest number a selection of n digits spells.
LargestSelection(r, n) ==
    LET values == {SelectionValue(r, sel) : sel \in Selections(r, n)}
    IN  CHOOSE v \in values : \A w \in values : w <= v

\* The selected indexes are strictly increasing and inside the row.
IndexesIncreaseInsideRow ==
    pc03 # "idle" =>
        /\ \A k \in 1..target_num : digit_indexes[k] \in 0..(Len(row03) - 1)
        /\ \A k \in 1..(target_num - 1) : digit_indexes[k] < digit_indexes[k + 1]

\* A call that ended returned the largest selection.
ReturnsLargestSelection ==
    pc03 \in {"returned", "panicked"} =>
        (pc03 = "returned" /\ result03 = {LargestSelection(row03, target_num)})

\* C22: largest_joltage(row, target_num), 1 <= target_num <= row length,
\* terminates and returns the largest number that target_num digits of the
\* row, selected in left-to-right order, spell; the selected indexes stay
\* strictly increasing and inside the row throughout.
C22_LargestJoltageIsTheMaximum ==
    /\ [](IndexesIncreaseInsideRow /\ ReturnsLargestSelection)
    /\ <>(pc03 \in {"returned", "panicked"})

C22_Witness ==
    /\ pc03 = "returned"
    /\ row03 = <<1, 3, 2, 3>> /\ target_num = 2
    /\ result03 = {33}

-----------------------------------------------------------------------------
(* day04.rs, remove_accessible_rolls                                        *)

ACCESSIBLE_ROLL_MAX_ADJACENCY == 3

MaxRows04 == 3              \* rows of a generated grid
MaxCols04 == 2              \* columns of a generated grid
MaxRounds == 2              \* max_rounds is None or Some(0 .. MaxRounds)

\* count_adjacent_rolls that counts the cell itself as well.
count_adjacent_rolls_with_self(g, r, c) ==
    Cardinality({d \in (-1..1) \X (-1..1) :
                    /\ r + d[1] >= 0
                    /\ c + d[2] >= 0
                    /\ grid_get(g, r + d[1], c + d[2]) = "Roll"})

\* count_adjacent_rolls(grid, row, col): checked_add_signed gives None below 0,
\* grid.get gives None past the last row or column.
count_adjacent_rolls(g, r, c) ==
    Cardinality({d \in (-1..1) \X (-1..1) :
                    /\ d # <<0, 0>>
                    /\ r + d[1] >= 0
                    /\ c + d[2] >= 0
                    /\ grid_get(g, r + d[1], c + d[2]) = "Roll"})

\* accessible_rolls_coords (day04.rs:80-91)
accessible_rolls_coords(g) ==
    {rc \in DOMAIN g.cells :
        /\ g.cells[rc] = "Roll"
        /\ count_adjacent_rolls(g, rc[1], rc[2]) <= ACCESSIBLE_ROLL_MAX_ADJACENCY}

\* The removal that empties one of the accessible cells only.
remove_one_roll(g, accessible) ==
    IF accessible = {} THEN g
    ELSE LET rc == CHOOSE rc \in accessible : TRUE
         IN  grid_set(g, rc[1], rc[2], "Empty")

\* accessible_rolls_coords.iter().for_each(.. *cell = Cell::Empty ..)
remove_rolls(g, accessible) ==
    [g EXCEPT !.cells = [rc \in DOMAIN g.cells |->
                            IF rc \in accessible THEN "Empty" ELSE g.cells[rc]]]

\* max_rounds.is_none_or(|max| round < max)
in_rounds(limit, r) == IF limit = {} THEN TRUE ELSE r < unwrap(limit)

\* grid![..] of rows of characters: '@' is a roll, '.' is empty.
GridOfRows(lines) ==
    [rows |-> Len(lines), cols |-> Len(lines[1]),
     cells |-> [rc \in (0..(Len(lines) - 1)) \X (0..(Len(lines[1]) - 1)) |->
                   IF lines[rc[1] + 1][rc[2] + 1] = "@" THEN "Roll" ELSE "Empty"]]

\* The grid of test_remove_accessible_rolls (day04.rs:175-180).
TestGrid04 ==
    GridOfRows(<< <<".", ".", "@", "@">>,
                  <<"@", "@", "@", "@">>,
                  <<"@", ".", "@", ".">>,
                  <<"@", "@", "@", "@">> >>)

\* A grid full of rolls: its corners are accessible, the rest is not.
FullGrid04 ==
    GridOfRows(<< <<"@", "@", "@", "@">>,
                  <<"@", "@", "@", "@">>,
                  <<"@", "@", "@", "@">>,
                  <<"@", "@", "@", "@">> >>)

Grids04 ==
    {TestGrid04, FullGrid04} \cup
    UNION {{[rows |-> h, cols |-> w, cells |-> cs] :
               cs \in [(0..(h - 1)) \X (0..(w - 1)) -> {"Empty", "Roll"}]} :
           h \in 1..MaxRows04, w \in 1..MaxCols04}

InitDay04 ==
    /\ initial_grid \in Grids04
    /\ max_rounds \in {{}} \cup {{m} : m \in 0..MaxRounds}
    /\ grid04 = initial_grid
    /\ round04 = 0
    /\ removed_rolls_counts = <<>>
    /\ pc04 = "while"
    /\ IdleOld /\ IdleNewBut("day04")

\* One iteration of the while loop; a round that removes nothing breaks out.
RemoveRound ==
    /\ pc04 = "while"
    /\ in_rounds(max_rounds, round04)
    /\ LET accessible == accessible_rolls_coords(grid04)
           removed_rolls_count == Cardinality(accessible)
       IN  /\ removed_rolls_counts' = Append(removed_rolls_counts, removed_rolls_count)
           /\ IF removed_rolls_count = 0
                THEN /\ pc04' = "returned"
                     /\ UNCHANGED <<grid04, round04>>
                ELSE /\ grid04' = remove_rolls(grid04, accessible)
                     /\ round04' = round04 + 1
                     /\ pc04' = "while"
    /\ UNCHANGED <<initial_grid, max_rounds>>

\* round has reached max_rounds.
ReturnCounts ==
    /\ pc04 = "while"
    /\ ~in_rounds(max_rounds, round04)
    /\ pc04' = "returned"
    /\ UNCHANGED <<initial_grid, max_rounds, grid04, round04, removed_rolls_counts>>

NextDay04 ==
    \/ RemoveRound /\ UNCHANGED others_day04
    \/ ReturnCounts /\ UNCHANGED others_day04

SpecDay04 == InitDay04 /\ [][NextDay04]_vars

FairSpecDay04 == SpecDay04 /\ WF_vars(NextDay04)

\* Reference: the rolls among the up to 8 in-bounds neighbours of a cell.
NeighbourRolls(g, rc) ==
    {other \in DOMAIN g.cells :
        /\ other # rc
        /\ other[1] - rc[1] \in -1..1
        /\ other[2] - rc[2] \in -1..1
        /\ g.cells[other] = "Roll"}

Rolls(g) == {rc \in DOMAIN g.cells : g.cells[rc] = "Roll"}

\* Reference: the rolls with at most 3 rolls around them.
AccessibleRolls(g) == {rc \in Rolls(g) : Cardinality(NeighbourRolls(g, rc)) <= 3}

\* Reference: the counts of the rounds from grid g on, `left` rounds being
\* allowed (-1: no limit).
RECURSIVE RoundCounts(_, _)
RoundCounts(g, left) ==
    IF left = 0 THEN <<>>
    ELSE LET gone == AccessibleRolls(g)
         IN  IF gone = {} THEN <<0>>
             ELSE <<Cardinality(gone)>> \o
                  RoundCounts([g EXCEPT !.cells = [rc \in DOMAIN g.cells |->
                                   IF rc \in gone THEN "Empty" ELSE g.cells[rc]]],
                              IF left < 0 THEN left ELSE left - 1)

\* C23: remove_accessible_rolls returns one count per round, the count of
\* round i being the number of rolls with at most 3 rolls among their
\* neighbours in the grid the earlier rounds left, all removed together; the
\* list stops after the first 0 or after max_rounds rounds, so with Some(m) it
\* has at most m entries.
C23_OneCountPerRound ==
    pc04 = "returned" =>
        /\ removed_rolls_counts =
               RoundCounts(initial_grid, IF max_rounds = {} THEN -1 ELSE unwrap(max_rounds))
        /\ max_rounds # {} => Len(removed_rolls_counts) <= unwrap(max_rounds)
        /\ \A i \in 1..(Len(removed_rolls_counts) - 1) : removed_rolls_counts[i] > 0

\* The test grid with Some(1): one round, which removes 5 rolls and leaves
\* rolls that a second round would remove.
C23_Witness ==
    /\ pc04 = "returned"
    /\ initial_grid = TestGrid04
    /\ max_rounds = {1}
    /\ removed_rolls_counts = <<5>>
    /\ AccessibleRolls(grid04) # {}

RECURSIVE SumSeq(_)
SumSeq(s) == IF s = <<>> THEN 0 ELSE s[1] + SumSeq(Tail(s))

\* With None the list ends with 0 after positive counts, its sum is the number
\* of rolls removed and every roll left has at least 4 rolls around it.
UnlimitedRemovalIsComplete ==
    (pc04 = "returned" /\ max_rounds = {}) =>
        /\ removed_rolls_counts # <<>>
        /\ removed_rolls_counts[Len(removed_rolls_counts)] = 0
        /\ \A i \in 1..(Len(removed_rolls_counts) - 1) : removed_rolls_counts[i] > 0
        /\ SumSeq(removed_rolls_counts) =
               Cardinality(Rolls(initial_grid)) - Cardinality(Rolls(grid04))
        /\ \A rc \in Rolls(grid04) : Cardinality(NeighbourRolls(grid04, rc)) >= 4

\* C24: remove_accessible_rolls(grid, None) terminates; its list ends with 0
\* and every earlier entry is positive; the sum of the list is the number of
\* rolls of the input minus the number left in the final grid, where every
\* remaining roll has at least 4 adjacent rolls; the caller's grid is not
\* modified.
C24_UnlimitedRemovalTerminates ==
    /\ [](UnlimitedRemovalIsComplete)
    /\ [][initial_grid' = initial_grid]_vars
    /\ (pc04 = "while" /\ max_rounds = {}) ~> (pc04 = "returned")

\* The full grid with None: the corners go, twelve rolls are left for good.
C24_Witness ==
    /\ pc04 = "returned"
    /\ initial_grid = FullGrid04
    /\ max_rounds = {}
    /\ removed_rolls_counts = <<4, 0>>
    /\ Cardinality(Rolls(grid04)) = 12
    /\ grid04 # initial_grid

-----------------------------------------------------------------------------
(* day07.rs, next_tick, shoot_beam_and_count_splits and                     *)
(* count_beam_possible_paths                                                *)

MaxRows07 == 3              \* rows of a generated grid
MaxCols07 == 3              \* columns of a generated grid

\* enum Cell { Empty, Start, Splitter, Beam(usize) }
EmptyCell == [kind |-> "Empty", weight |-> 0]
StartCell == [kind |-> "Start", weight |-> 0]
SplitterCell == [kind |-> "Splitter", weight |-> 0]
Beam(w) == [kind |-> "Beam", weight |-> w]

\* The update of one of the two cells beside a splitter (day07.rs:97-106):
\* get_mut gives None outside the grid.
add_beam(g, r, c, above_weight) ==
    IF ~InGrid(g, r, c) THEN g
    ELSE LET adjacent_cell == g.cells[<<r, c>>]
         IN  IF adjacent_cell.kind = "Beam"
               THEN grid_set(g, r, c, Beam(above_weight + adjacent_cell.weight))
             ELSE IF adjacent_cell.kind = "Empty"
               THEN grid_set(g, r, c, Beam(above_weight))
             ELSE g

\* The body of the for loop of next_tick for one col_idx (day07.rs:77-110).
tick_column(g, r, c) ==
    LET cell == g.cells[<<r, c>>]
        above_cell == g.cells[<<IF r = 0 THEN 0 ELSE r - 1, c>>]
    IN  IF above_cell.kind = "Start" /\ cell.kind = "Empty"
          THEN [grid |-> grid_set(g, r, c, Beam(1)), splits |-> 0]
        ELSE IF above_cell.kind = "Beam" /\ cell.kind = "Empty"
          THEN [grid |-> grid_set(g, r, c, Beam(above_cell.weight)), splits |-> 0]
        ELSE IF above_cell.kind = "Beam" /\ cell.kind = "Beam"
          THEN [grid |-> grid_set(g, r, c, Beam(above_cell.weight + cell.weight)),
                splits |-> 0]
        ELSE IF above_cell.kind = "Beam" /\ cell.kind = "Splitter"
          THEN [grid |-> add_beam(add_beam(g, r, IF c = 0 THEN 0 ELSE c - 1,
                                           above_cell.weight),
                                  r, c + 1, above_cell.weight),
                splits |-> 1]
        ELSE [grid |-> g, splits |-> 0]

\* next_tick(grid, row_idx): the columns from col_idx on, in ascending order.
RECURSIVE tick_columns(_, _, _)
tick_columns(g, r, c) ==
    IF c >= g.cols THEN [grid |-> g, splits |-> 0]
    ELSE LET one == tick_column(g, r, c)
             rest == tick_columns(one.grid, r, c + 1)
         IN  [grid |-> rest.grid, splits |-> one.splits + rest.splits]

next_tick(g, row_idx) == tick_columns(g, row_idx, 0)

\* count_beam_possible_paths: the sum of the weights of the last row.
RECURSIVE sum_row_weights(_, _, _)
sum_row_weights(g, r, c) ==
    IF c >= g.cols THEN 0
    ELSE (IF g.cells[<<r, c>>].kind = "Beam" THEN g.cells[<<r, c>>].weight ELSE 0)
         + sum_row_weights(g, r, c + 1)

count_beam_possible_paths(g) == sum_row_weights(g, g.rows - 1, 0)

\* Grids with one Start in the first row, the rest of it empty, and empty
\* cells and splitters below.
Grids07 ==
    UNION {{[rows |-> h, cols |-> w,
             cells |-> [rc \in (0..(h - 1)) \X (0..(w - 1)) |->
                           IF rc[1] = 0
                           THEN (IF rc[2] = s THEN StartCell ELSE EmptyCell)
                           ELSE below[rc]]] :
               s \in 0..(w - 1),
               below \in [(1..(h - 1)) \X (0..(w - 1)) -> {EmptyCell, SplitterCell}]} :
           h \in 1..MaxRows07, w \in 1..MaxCols07}

InitDay07 ==
    /\ input_grid \in Grids07
    /\ cell_grid = input_grid
    /\ tick_row = 1
    /\ total_splits = 0
    /\ possible_paths = {}
    /\ pc07 = "shoot"
    /\ IdleOld /\ IdleNewBut("day07")

\* (1..cell_grid.rows()).map(|row_idx| next_tick(cell_grid, row_idx).1).sum():
\* one call of next_tick.
NextTick ==
    /\ pc07 = "shoot"
    /\ tick_row < cell_grid.rows
    /\ LET ticked == next_tick(cell_grid, tick_row)
       IN  /\ cell_grid' = ticked.grid
           /\ total_splits' = total_splits + ticked.splits
    /\ tick_row' = tick_row + 1
    /\ UNCHANGED <<input_grid, possible_paths, pc07>>

\* shoot_beam_and_count_splits returns (cell_grid, total_splits).
ReturnSplits ==
    /\ pc07 = "shoot"
    /\ tick_row >= cell_grid.rows
    /\ pc07' = "shot"
    /\ UNCHANGED <<input_grid, cell_grid, tick_row, total_splits, possible_paths>>

\* Part::Two => count_beam_possible_paths(&cell_grid)
CountBeamPossiblePaths ==
    /\ pc07 = "shot"
    /\ possible_paths' = {count_beam_possible_paths(cell_grid)}
    /\ pc07' = "counted"
    /\ UNCHANGED <<input_grid, cell_grid, tick_row, total_splits>>

NextDay07 ==
    \/ NextTick /\ UNCHANGED others_day07
    \/ ReturnSplits /\ UNCHANGED others_day07
    \/ CountBeamPossiblePaths /\ UNCHANGED others_day07

SpecDay07 == InitDay07 /\ [][NextDay07]_vars

\* Reference: the kind of a cell of the input, "none" outside the grid.
KindAt(g, r, c) == IF InGrid(g, r, c) THEN g.cells[<<r, c>>].kind ELSE "none"

\* Reference: the number of paths from the Start to the empty cell <<r, c>> of
\* the input g.  A path comes straight down from the cell above, or sideways
\* from a splitter beside the cell that a path has met from above.
RECURSIVE PathsTo(_, _, _)
PathsInto(g, r, c) ==
    IF KindAt(g, r, c) = "Start" THEN 1 ELSE PathsTo(g, r, c)

PathsTo(g, r, c) ==
    IF KindAt(g, r, c) # "Empty" \/ r = 0 THEN 0
    ELSE PathsInto(g, r - 1, c)
         + (IF KindAt(g, r, c - 1) = "Splitter" THEN PathsInto(g, r - 1, c - 1) ELSE 0)
         + (IF KindAt(g, r, c + 1) = "Splitter" THEN PathsInto(g, r - 1, c + 1) ELSE 0)

\* Reference: the paths that reach the last row.
RECURSIVE PathsToRow(_, _, _)
PathsToRow(g, r, c) ==
    IF c >= g.cols THEN 0 ELSE PathsTo(g, r, c) + PathsToRow(g, r, c + 1)

\* The weight of every beam is the number of paths to its cell.
BeamWeightsCountPaths ==
    pc07 \in {"shot", "counted"} =>
        \A rc \in DOMAIN cell_grid.cells :
            cell_grid.cells[rc].kind = "Beam" =>
                cell_grid.cells[rc].weight = PathsTo(input_grid, rc[1], rc[2])

\* C25: for every grid with a single Start in the first row and no beams,
\* after shoot_beam_and_count_splits the weight of each Beam cell is the number
\* of paths from the Start to that cell (straight down through empty cells,
\* and from a splitter met on the way to the cell left or right of it), and
\* count_beam_possible_paths returns the number of paths reaching the last row.
C25_BeamWeightsCountPaths ==
    /\ BeamWeightsCountPaths
    /\ pc07 = "counted" =>
           possible_paths = {PathsToRow(input_grid, input_grid.rows - 1, 0)}

\* C25 for the grids that have no splitter right below the Start (diagnostic):
\* there a beam is exactly where a path leads.
StartAboveSplitter(g) ==
    \E c \in 0..(g.cols - 1) : KindAt(g, 0, c) = "Start" /\ KindAt(g, 1, c) = "Splitter"

BeamsWherePathsLeadUnlessStartSplits ==
    (pc07 \in {"shot", "counted"} /\ ~StartAboveSplitter(input_grid)) =>
        /\ \A rc \in DOMAIN cell_grid.cells :
               LET paths == PathsTo(input_grid, rc[1], rc[2])
               IN  cell_grid.cells[rc] =
                       IF paths > 0 THEN Beam(paths) ELSE input_grid.cells[rc]
        /\ pc07 = "counted" =>
               possible_paths = {PathsToRow(input_grid, input_grid.rows - 1, 0)}

-----------------------------------------------------------------------------
(* day08.rs, connect_junction_boxes                                         *)

MaxCircuitBoxes == 3        \* junction boxes per list
MaxTaken == 5               \* rounds is in 0..MaxTaken or is PART_ONE_ROUNDS

\* solve_day08: Part::One => solve_day08_part_1(&coords, 1000); Part Two
\* passes usize::MAX, which like 1000 is more than the edges of any list here.
PART_ONE_ROUNDS == 1000

\* build_edge_length_map(coords) as a function of coords: the map after the
\* elements `from` .. `to` of iproduct!(coords, coords), counted from 0 and
\* taken in their order, have been filtered and inserted into `map`.
RECURSIVE insert_edges(_, _, _, _)
insert_edges(map, cs, from, to) ==
    IF from > to THEN map
    ELSE IF from = to
    THEN LET coord_a == cs[(from \div Len(cs)) + 1]
             coord_b == cs[(from % Len(cs)) + 1]
         IN  IF coord_a # coord_b
             THEN map_insert(map, Line3D(coord_a, coord_b),
                             distance_squared(coord_a, coord_b))
             ELSE map
    ELSE LET middle == (from + to) \div 2
         IN  insert_edges(insert_edges(map, cs, from, middle), cs, middle + 1, to)

build_edge_length_map(cs) == insert_edges(<<>>, cs, 0, Len(cs) * Len(cs) - 1)

\* edge_length_map.iter().sorted_by(..): the iteration order of a HashMap is
\* any order of its entries and the sort is stable, so the result is any
\* order of the entries with ascending values.  These are all such orders of
\* the entries `left` of the map, as sequences of their indexes.
RECURSIVE ascending_orders(_, _)
ascending_orders(map, left) ==
    IF left = {} THEN {<<>>}
    ELSE LET shortest == {i \in left : \A j \in left : map[i].value <= map[j].value}
         IN  UNION {{<<i>> \o rest : rest \in ascending_orders(map, left \ {i})} :
                    i \in shortest}

sorted_by_length(map) ==
    {[k \in 1..Len(map) |-> map[order[k]]] : order \in ascending_orders(map, 1..Len(map))}

\* take that lets every element through.
take_all(seq, n) == seq

\* .take(rounds)
take(seq, n) == SubSeq(seq, 1, IF n < Len(seq) THEN n ELSE Len(seq))

\* The coords of test_connect_junction_boxes (day08.rs:221-228): the lengths
\* of their edges differ pairwise.
TestCoords08 ==
    <<Coords3D(2, 2, 0), Coords3D(4, 2, 0), Coords3D(2, 5, 0),
      Coords3D(6, 6, 0), Coords3D(9, 5, 0), Coords3D(10, 0, 0)>>

\* Lists of distinct boxes: of the six sample points, where edges of one
\* length abound, and the first boxes of the test's coords, four at most.
BoxLists ==
    UNION {{l \in [1..n -> Points3D] : \A i, j \in 1..n : i # j => l[i] # l[j]} :
           n \in 0..MaxCircuitBoxes}
    \cup {SubSeq(TestCoords08, 1, n) : n \in 0..(Len(TestCoords08) - 2)}

InitCircuits ==
    /\ cjb_coords \in BoxLists
    /\ cjb_rounds \in (0..MaxTaken) \cup {PART_ONE_ROUNDS}
    /\ shortest_edges = <<>>
    /\ cjb_circuits = <<>>
    /\ cjb_idx = 0
    /\ final_line = {}
    /\ pc_cjb = "start"
    /\ IdleOld /\ IdleNewBut("cjb")

\* day08.rs:90-100: the edge map, the singleton circuits, the sorted edges.
SortEdges ==
    /\ pc_cjb = "start"
    /\ \E sorted \in sorted_by_length(build_edge_length_map(cjb_coords)) :
           shortest_edges' = take(sorted, cjb_rounds)
    /\ cjb_circuits' = [i \in 1..Len(cjb_coords) |-> {cjb_coords[i]}]
    /\ pc_cjb' = "for"
    /\ UNCHANGED <<cjb_coords, cjb_rounds, cjb_idx, final_line>>

\* One iteration of the for loop; the edge that leaves one circuit breaks out.
ConnectShortestEdge ==
    /\ pc_cjb = "for"
    /\ cjb_idx < Len(shortest_edges)
    /\ LET line == shortest_edges[cjb_idx + 1].key
           joined == connected(cjb_circuits, line[1], line[2])
       IN  /\ cjb_circuits' = joined
           /\ cjb_idx' = cjb_idx + 1
           /\ IF final_line = {} /\ Len(joined) = 1
                THEN final_line' = {line} /\ pc_cjb' = "returned"
                ELSE UNCHANGED <<final_line, pc_cjb>>
    /\ UNCHANGED <<cjb_coords, cjb_rounds, shortest_edges>>

\* shortest_edges is exhausted: (circuits, final_line) is returned.
ReturnCircuits ==
    /\ pc_cjb = "for"
    /\ cjb_idx >= Len(shortest_edges)
    /\ pc_cjb' = "returned"
    /\ UNCHANGED <<cjb_coords, cjb_rounds, shortest_edges, cjb_circuits, cjb_idx,
                   final_line>>

NextCircuits ==
    \/ SortEdges /\ UNCHANGED others_cjb
    \/ ConnectShortestEdge /\ UNCHANGED others_cjb
    \/ ReturnCircuits /\ UNCHANGED others_cjb

SpecCircuits == InitCircuits /\ [][NextCircuits]_vars

\* Reference: the edges of a set of boxes, as sets of two boxes.
EdgesOf(boxes) == {{a, b} : a, b \in boxes} \ {{a} : a \in boxes}

\* Reference: the squared length of an edge.
SquaredLength(e) ==
    LET a == CHOOSE a \in e : TRUE
        b == CHOOSE b \in e : b # a
    IN  (b.x - a.x) * (b.x - a.x) + (b.y - a.y) * (b.y - a.y)
            + (b.z - a.z) * (b.z - a.z)

\* Reference: no two edges are of one length.
DistinctLengths(boxes) ==
    \A e, f \in EdgesOf(boxes) : e # f => SquaredLength(e) # SquaredLength(f)

\* Reference: the boxes joined to a set of boxes by a set of edges.
RECURSIVE JoinedTo(_, _)
JoinedTo(group, edges) ==
    LET grown == group \cup UNION {e \in edges : e \cap group # {}}
    IN  IF grown = group THEN group ELSE JoinedTo(grown, edges)

\* Reference: the circuits a set of edges makes of the boxes.
CircuitsOf(boxes, edges) == {JoinedTo({b}, edges) : b \in boxes}

\* Reference: what a run that takes the edges in the order `lines` returns:
\* it stops at the first edge that leaves one circuit.
OutcomeOf(boxes, lines) ==
    LET first(k) == {lines[i] : i \in 1..k}
        joining == {k \in 1..Len(lines) : Cardinality(CircuitsOf(boxes, first(k))) = 1}
        stop == IF joining = {} THEN Len(lines)
                ELSE CHOOSE k \in joining : \A other \in joining : k <= other
    IN  [processed |-> stop,
         circuits |-> CircuitsOf(boxes, first(stop)),
         final_line |-> IF joining = {} THEN {} ELSE {lines[stop]}]

\* Reference: the edges in ascending order of length, for distinct lengths.
AscendingEdges(boxes) ==
    [i \in 1..Cardinality(EdgesOf(boxes)) |->
        CHOOSE e \in EdgesOf(boxes) :
            Cardinality({f \in EdgesOf(boxes) : SquaredLength(f) < SquaredLength(e)}) = i - 1]

\* Reference: the orders of a set of edges with ascending lengths.
RECURSIVE AscendingOrders(_)
AscendingOrders(edges) ==
    IF edges = {} THEN {<<>>}
    ELSE LET longest == {e \in edges :
                            \A f \in edges : SquaredLength(f) <= SquaredLength(e)}
         IN  UNION {{Append(others, e) : others \in AscendingOrders(edges \ {e})} :
                    e \in longest}

\* Reference: the first n elements of a sequence, all of them if it has fewer.
FirstOf(seq, n) == [i \in 1..(IF n < Len(seq) THEN n ELSE Len(seq)) |-> seq[i]]

\* What the call returned, circuits and lines taken as sets.
Returned ==
    [processed |-> cjb_idx,
     circuits |-> RangeOf(cjb_circuits),
     final_line |-> {Endpoints(line) : line \in final_line}]

\* The edges are taken in ascending order of length, `rounds` of them at
\* most, up to the first that leaves one circuit, which is the line returned.
AscendingUpToJoiningEdge ==
    (pc_cjb = "returned" /\ DistinctLengths(RangeOf(cjb_coords))) =>
        /\ \A i \in 1..cjb_idx :
               Endpoints(shortest_edges[i].key) = AscendingEdges(RangeOf(cjb_coords))[i]
        /\ cjb_idx <= cjb_rounds
        /\ Returned = OutcomeOf(RangeOf(cjb_coords),
                                FirstOf(AscendingEdges(RangeOf(cjb_coords)), cjb_rounds))

\* C26: connect_junction_boxes(coords, rounds), for boxes with pairwise
\* distinct edge lengths, takes the edges in strictly ascending length order,
\* `rounds` of them at most (an edge inside one circuit uses up a round too),
\* and stops right after the first edge that leaves a single circuit; the line
\* returned is Some(that edge) exactly when all boxes end in one circuit.
C26_AscendingEdgesUntilOneCircuit ==
    /\ AscendingUpToJoiningEdge
    /\ (pc_cjb = "returned" /\ DistinctLengths(RangeOf(cjb_coords))) =>
           (final_line # {} <=> Len(cjb_circuits) = 1)

\* C26 for two boxes or more; a single box is one circuit without any edge.
C26_AscendingEdgesUntilOneCircuitOfSeveralBoxes ==
    /\ AscendingUpToJoiningEdge
    /\ (/\ pc_cjb = "returned"
        /\ DistinctLengths(RangeOf(cjb_coords))
        /\ Len(cjb_coords) # 1) =>
           (final_line # {} <=> Len(cjb_circuits) = 1)

\* Four boxes of the test, all rounds: AB, AC, then BC inside the circuit,
\* then CD, which leaves one circuit and is returned.
C26_Witness ==
    /\ pc_cjb = "returned"
    /\ cjb_coords = SubSeq(TestCoords08, 1, 4)
    /\ cjb_rounds = PART_ONE_ROUNDS
    /\ cjb_idx = 4
    /\ final_line = {Line3D(TestCoords08[3], TestCoords08[4])}
    /\ Len(cjb_circuits) = 1

\* C30: connect_junction_boxes is deterministic: for fixed coords and rounds
\* every run returns the same circuits and the same final line, also when
\* several edges are of one length.
C30_SameResultOnEveryRun ==
    pc_cjb = "returned" =>
        Returned = OutcomeOf(RangeOf(cjb_coords),
                       FirstOf(CHOOSE order \in AscendingOrders(EdgesOf(RangeOf(cjb_coords))) :
                                   TRUE,
                               cjb_rounds))

\* C30 for boxes whose edge lengths differ pairwise.
C30_SameResultOnEveryRunForDistinctLengths ==
    (pc_cjb = "returned" /\ DistinctLengths(RangeOf(cjb_coords))) =>
        Returned = OutcomeOf(RangeOf(cjb_coords),
                       FirstOf(CHOOSE order \in AscendingOrders(EdgesOf(RangeOf(cjb_coords))) :
                                   TRUE,
                               cjb_rounds))

\* Three boxes with edges of three lengths, two rounds: both are taken and
\* the second leaves one circuit.
C30_Witness ==
    /\ pc_cjb = "returned"
    /\ cjb_coords = <<Coords3D(0, 0, 0), Coords3D(0, 0, 1), Coords3D(-1, 1, 1)>>
    /\ cjb_rounds = 2
    /\ cjb_idx = 2
    /\ final_line # {}

-----------------------------------------------------------------------------
(* day09.rs, is_rect_in_red_and_green, fill_green_tiles and                 *)
(* find_first_inside_point, each called on a grid of its own as the unit    *)
(* tests call them.                                                         *)

MaxRectSides == 6           \* rows + cols of a generated grid of SpecRect
MaxHoles == 2               \* Empty cells of a generated grid of SpecRect

\* impl TryFrom<char> for Cell: NoValue for the Err of any other character.
cell_try_from(ch) ==
    IF ch = "." THEN "Empty"
    ELSE IF ch = "#" THEN "Red"
    ELSE IF ch = "X" THEN "Green"
    ELSE NoValue

\* parse_string_to_grid(input, Cell::try_from) of a well-formed picture.
TileGridOfRows(lines) ==
    [rows |-> Len(lines), cols |-> Len(lines[1]),
     cells |-> [rc \in (0..(Len(lines) - 1)) \X (0..(Len(lines[1]) - 1)) |->
                   cell_try_from(lines[rc[1] + 1][rc[2] + 1])]]

\* The grid and the points a .. h of test_is_rect_in_red_and_green.
TestGridRect ==
    TileGridOfRows(<< <<"#", "X", "X", "X", "X", "X", "X", "X", "#">>,
                      <<"X", "X", "X", "X", "X", "X", "X", "X", "X">>,
                      <<"X", "X", "X", "X", "X", "#", "X", "X", "#">>,
                      <<"X", "X", "X", "X", "X", "X", ".", ".", ".">>,
                      <<"X", "X", "X", "X", "X", "#", "X", "X", "#">>,
                      <<"#", "X", "X", "X", "X", "X", "X", "X", "#">> >>)

TestPointsRect ==
    {Coords2D(0, 0), Coords2D(8, 0), Coords2D(8, 2), Coords2D(5, 2),
     Coords2D(5, 4), Coords2D(8, 4), Coords2D(8, 5), Coords2D(0, 5)}

\* The shapes <<rows, cols>> of the generated grids.
Shapes(sides) == {rc \in (1..sides) \X (1..sides) : rc[1] + rc[2] <= sides}

CellsOf(shape) == (0..(shape[1] - 1)) \X (0..(shape[2] - 1))

\* A grid of tiles, Red where row + column is even and Green elsewhere, but
\* for the cells of `holes`, which are Empty.
TilesWithHoles(shape, holes) ==
    [rows |-> shape[1], cols |-> shape[2],
     cells |-> [rc \in CellsOf(shape) |->
                   IF rc \in holes THEN "Empty"
                   ELSE IF (rc[1] + rc[2]) % 2 = 0 THEN "Red" ELSE "Green"]]

RectGrids ==
    UNION {{TilesWithHoles(shape, holes) :
               holes \in {h \in SUBSET CellsOf(shape) : Cardinality(h) <= MaxHoles}} :
           shape \in Shapes(MaxRectSides)}

\* The in-bounds Coords2D of a grid.
CoordsOf(g) == {Coords2D(rc[2], rc[1]) : rc \in DOMAIN g.cells}

\* A call is_rect_in_red_and_green(&grid, a, b).
InitIsRect ==
    /\ \/ /\ tile_grid \in RectGrids
          /\ tile_a \in {{p} : p \in CoordsOf(tile_grid)}
          /\ tile_b \in {{p} : p \in CoordsOf(tile_grid)}
       \/ /\ tile_grid = TestGridRect
          /\ tile_a \in {{p} : p \in TestPointsRect}
          /\ tile_b \in {{p} : p \in TestPointsRect}
    /\ tile_coords = <<>> /\ tile_before = <<>> /\ tile_to_fill = <<>>
    /\ tile_result = {}
    /\ pc_tile = "is_rect"
    /\ IdleOld /\ IdleNewBut("tile")

\* The body of is_rect_in_red_and_green.
IsRectInRedAndGreen ==
    /\ pc_tile = "is_rect"
    /\ tile_result' = {is_rect_in_red_and_green(tile_grid, unwrap(tile_a), unwrap(tile_b))}
    /\ pc_tile' = "rect_returned"
    /\ UNCHANGED <<tile_coords, tile_grid, tile_before, tile_a, tile_b, tile_to_fill>>

NextRect == IsRectInRedAndGreen /\ UNCHANGED others_tile

SpecRect == InitIsRect /\ [][NextRect]_vars

\* Reference: the cells <<row, col>> of the rectangle spanned by a and b.
RectCells(a, b) ==
    {<<y, x>> : y \in Min(a.y, b.y)..Max(a.y, b.y), x \in Min(a.x, b.x)..Max(a.x, b.x)}

\* Reference: the cells of the four sides of that rectangle.
SideCells(a, b) ==
    {rc \in RectCells(a, b) :
        \/ rc[1] \in {a.y, b.y}
        \/ rc[2] \in {a.x, b.x}}

\* C27: is_rect_in_red_and_green(grid, a, b) returns true exactly when every
\* cell of the rectangle spanned by a and b, its corners, sides and interior,
\* is Red or Green.
C27_TrueIffEveryCellIsRedOrGreen ==
    pc_tile = "rect_returned" =>
        tile_result = {\A rc \in RectCells(unwrap(tile_a), unwrap(tile_b)) :
                           tile_grid.cells[rc] \in {"Red", "Green"}}

\* What the code decides (diagnostic): the cells of the four sides are Red or
\* Green; the interior is not looked at.
TrueIffEverySideCellIsRedOrGreen ==
    pc_tile = "rect_returned" =>
        tile_result = {\A rc \in SideCells(unwrap(tile_a), unwrap(tile_b)) :
                           tile_grid.cells[rc] \in {"Red", "Green"}}

\* The assertions of test_is_rect_in_red_and_green (diagnostic).
TestRectResults ==
    (pc_tile = "rect_returned" /\ tile_grid = TestGridRect) =>
        LET a == Coords2D(0, 0)
            d == Coords2D(5, 2)
            passes == {Coords2D(8, 0), Coords2D(8, 2), Coords2D(5, 2),
                       Coords2D(5, 4), Coords2D(0, 5)}
            fails == {Coords2D(8, 4), Coords2D(8, 5)}
        IN  /\ (tile_a = {a} /\ tile_b \in {{p} : p \in passes}) => tile_result = {TRUE}
            /\ (tile_a = {a} /\ tile_b \in {{p} : p \in fails}) => tile_result = {FALSE}
            /\ (tile_a = {d} /\ tile_b = {Coords2D(5, 4)}) => tile_result = {TRUE}
            /\ (tile_a = {d} /\ tile_b = {Coords2D(8, 4)}) => tile_result = {FALSE}


\* fill_green_tiles on a grid of its own.

MaxFillSides == 5           \* rows + cols of a generated grid of SpecFill

\* The generated grids: every cell Empty or a tile.
FillGrids ==
    UNION {{TilesWithHoles(shape, holes) : holes \in SUBSET CellsOf(shape)} :
           shape \in Shapes(MaxFillSides)}

\* The first two grids of test_fill_green_tiles and the grids expected there.
TestGridFill1 ==
    TileGridOfRows(<< <<".", "#", "X", "#">>,
                      <<"#", "#", ".", "X">>,
                      <<"#", "X", "#", "X">>,
                      <<".", ".", "#", "#">> >>)

TestFilledGrid1 ==
    TileGridOfRows(<< <<".", "#", "X", "#">>,
                      <<"#", "#", "X", "X">>,
                      <<"#", "X", "#", "X">>,
                      <<".", ".", "#", "#">> >>)

TestGridFill2 ==
    TileGridOfRows(<< <<".", ".", ".", ".", "#", "#", ".", ".", ".", ".">>,
                      <<".", ".", ".", ".", "X", "X", ".", ".", ".", ".">>,
                      <<".", "#", "X", "X", "#", "#", "X", "X", "#", ".">>,
                      <<".", "X", ".", ".", ".", ".", ".", ".", "X", ".">>,
                      <<".", "#", "X", "X", "X", "X", "X", "X", "#", ".">> >>)

TestFilledGrid2 ==
    TileGridOfRows(<< <<".", ".", ".", ".", "#", "#", ".", ".", ".", ".">>,
                      <<".", ".", ".", ".", "X", "X", ".", ".", ".", ".">>,
                      <<".", "#", "X", "X", "#", "#", "X", "X", "#", ".">>,
                      <<".", "X", "X", "X", "X", "X", "X", "X", "X", ".">>,
                      <<".", "#", "X", "X", "X", "X", "X", "X", "#", ".">> >>)

\* A call fill_green_tiles(&mut grid, &start).
InitFill ==
    /\ \/ /\ tile_grid \in FillGrids
          /\ tile_a \in {{p} : p \in CoordsOf(tile_grid)}
       \/ /\ tile_grid = TestGridFill1
          /\ tile_a = {Coords2D(2, 1)}
       \/ /\ tile_grid = TestGridFill2
          /\ tile_a = {Coords2D(2, 3)}
    /\ tile_b = {}
    /\ tile_coords = <<>> /\ tile_before = <<>> /\ tile_to_fill = <<>>
    /\ tile_result = {}
    /\ pc_tile = "fill_assert"
    /\ IdleOld /\ IdleNewBut("tile")

\* assert_eq!(grid.get(start.y, start.x), Some(&Cell::Empty));
\* let mut coords_to_fill = vec![start.clone()];
FillAssert ==
    /\ pc_tile = "fill_assert"
    /\ LET start == unwrap(tile_a)
       IN  IF grid_get(tile_grid, start.y, start.x) = "Empty"
           THEN /\ tile_to_fill' = <<start>>
                /\ tile_before' = tile_grid
                /\ pc_tile' = "fill"
           ELSE /\ pc_tile' = "fill_panicked"
                /\ UNCHANGED <<tile_to_fill, tile_before>>
    /\ UNCHANGED <<tile_coords, tile_grid, tile_a, tile_b, tile_result>>

\* fill_green_tiles with the cell set Green and its neighbours pushed in one
\* step, as the code does between two pops.
\* One iteration of `while let Some(coords) = coords_to_fill.pop()`.
FillLoop ==
    /\ pc_tile = "fill"
    /\ tile_to_fill # <<>>
    /\ LET c == tile_to_fill[Len(tile_to_fill)]
           filled == grid_set(tile_grid, c.y, c.x, "Green")
       IN  /\ tile_grid' = filled
           /\ tile_to_fill' =
                  SubSeq(tile_to_fill, 1, Len(tile_to_fill) - 1)
                      \o empty_neighbours(filled, c, 1)
    /\ UNCHANGED <<tile_coords, tile_before, tile_a, tile_b, tile_result, pc_tile>>

\* coords_to_fill.pop() is None: fill_green_tiles returns.
FillReturn ==
    /\ pc_tile = "fill"
    /\ tile_to_fill = <<>>
    /\ pc_tile' = "fill_returned"
    /\ UNCHANGED <<tile_coords, tile_grid, tile_before, tile_a, tile_b,
                   tile_to_fill, tile_result>>

NextFill ==
    \/ FillAssert /\ UNCHANGED others_tile
    \/ FillLoop /\ UNCHANGED others_tile
    \/ FillReturn /\ UNCHANGED others_tile

SpecFill == InitFill /\ [][NextFill]_vars

\* The loop is the only thing the call does: it is not stopped from outside.
FairSpecFill == SpecFill /\ WF_vars(NextFill)

\* Reference: the Empty cells of g that are 4-connected to a cell of `reached`
\* through Empty cells.
RECURSIVE EmptyRegion(_, _)
EmptyRegion(g, reached) ==
    LET more == {rc \in DOMAIN g.cells :
                    /\ g.cells[rc] = "Empty"
                    /\ \E from \in reached :
                           \/ (rc[1] = from[1] /\ abs_diff(rc[2], from[2]) = 1)
                           \/ (rc[2] = from[2] /\ abs_diff(rc[1], from[1]) = 1)}
    IN  IF more \subseteq reached THEN reached
        ELSE EmptyRegion(g, reached \cup more)

\* Reference: g with the cells of `region` Green and every other cell as it is.
WithGreen(g, region) ==
    [g EXCEPT !.cells = [rc \in DOMAIN g.cells |->
                            IF rc \in region THEN "Green" ELSE g.cells[rc]]]

FillsTheRegionOfStart ==
    pc_tile = "fill_returned" =>
        LET start == unwrap(tile_a)
        IN  tile_grid = WithGreen(tile_before,
                                  EmptyRegion(tile_before, {<<start.y, start.x>>}))

\* C28: fill_green_tiles(grid, start), called with start on an Empty cell,
\* terminates and turns Green exactly the Empty cells 4-connected to start
\* through Empty cells; every other cell keeps its value.
C28_FillTerminatesAndFillsTheRegion ==
    /\ [](FillsTheRegionOfStart)
    /\ (pc_tile = "fill") ~> (pc_tile = "fill_returned")

\* A returned fill that left a Red cell, a Green cell and an unconnected
\* Empty cell as they were and turned two cells Green.
C28_Witness ==
    /\ pc_tile = "fill_returned"
    /\ \E rc \in DOMAIN tile_grid.cells :
           tile_before.cells[rc] = "Red" /\ tile_grid.cells[rc] = "Red"
    /\ \E rc \in DOMAIN tile_grid.cells :
           tile_before.cells[rc] = "Green" /\ tile_grid.cells[rc] = "Green"
    /\ \E rc \in DOMAIN tile_grid.cells :
           tile_before.cells[rc] = "Empty" /\ tile_grid.cells[rc] = "Empty"
    /\ Cardinality({rc \in DOMAIN tile_grid.cells :
                       tile_before.cells[rc] = "Empty"
                           /\ tile_grid.cells[rc] = "Green"}) >= 2

\* The grids the test expects (diagnostic).
TestFillResults ==
    /\ (pc_tile = "fill_returned" /\ tile_before = TestGridFill1) =>
           tile_grid = TestFilledGrid1
    /\ (pc_tile = "fill_returned" /\ tile_before = TestGridFill2) =>
           tile_grid = TestFilledGrid2


\* make_cell_grid, connect_red_tiles, find_first_inside_point and
\* fill_green_tiles on the red tiles of one polygon, as test_connect_red_tiles
\* and test_fill_green_tiles call them: the grid is not compressed and may be
\* wider and taller than the polygon.

MaxOffset == 1              \* the polygon is moved right and down by 0..MaxOffset
MaxMargin == 2              \* columns right of and rows below the polygon

\* The two loops of test_connect_red_tiles (day09.rs:448-455, 474-483).
TestLoopConnect1 ==
    <<Coords2D(1, 1), Coords2D(5, 1), Coords2D(5, 3), Coords2D(8, 3),
      Coords2D(8, 5), Coords2D(1, 5)>>

TestLoopConnect2 ==
    <<Coords2D(1, 0), Coords2D(1, 1), Coords2D(0, 1), Coords2D(0, 2),
      Coords2D(2, 2), Coords2D(2, 3), Coords2D(3, 3), Coords2D(3, 0)>>

\* A hexagon whose left side steps to the left one row below its top.
StepLoop ==
    <<Coords2D(1, 0), Coords2D(3, 0), Coords2D(3, 2), Coords2D(0, 2),
      Coords2D(0, 1), Coords2D(1, 1)>>

TraceBaseLoops == BaseLoops \cup {TestLoopConnect1, TestLoopConnect2, StepLoop}

\* The largest x and the largest y of a list of coordinates.
LargestX(cs) == SetMax({cs[i].x : i \in 1..Len(cs)})
LargestY(cs) == SetMax({cs[i].y : i \in 1..Len(cs)})

\* The loop mirrored left to right and/or top to bottom, then moved by (dx, dy).
Placed(loop, flip_x, flip_y, dx, dy) ==
    [i \in 1..Len(loop) |->
        Coords2D((IF flip_x THEN LargestX(loop) - loop[i].x ELSE loop[i].x) + dx,
                 (IF flip_y THEN LargestY(loop) - loop[i].y ELSE loop[i].y) + dy)]

TraceLoops ==
    {Placed(loop, flip_x, flip_y, dx, dy) :
        loop \in TraceBaseLoops, flip_x \in BOOLEAN, flip_y \in BOOLEAN,
        dx \in 0..MaxOffset, dy \in 0..MaxOffset}

\* let mut grid = make_cell_grid(&coords, rows, cols);
InitTrace ==
    /\ tile_coords \in TraceLoops
    /\ \E margin_x \in 0..MaxMargin, margin_y \in 0..MaxMargin :
           tile_grid = make_cell_grid(tile_coords,
                                      LargestY(tile_coords) + 1 + margin_y,
                                      LargestX(tile_coords) + 1 + margin_x)
    /\ tile_before = <<>> /\ tile_a = {} /\ tile_b = {} /\ tile_to_fill = <<>>
    /\ tile_result = {}
    /\ pc_tile = "connect"
    /\ IdleOld /\ IdleNewBut("tile")

\* connect_red_tiles(&mut grid, &coords);
ConnectTiles ==
    /\ pc_tile = "connect"
    /\ tile_grid' = connect_red_tiles(tile_grid, tile_coords)
    /\ pc_tile' = "find"
    /\ UNCHANGED <<tile_coords, tile_before, tile_a, tile_b, tile_to_fill, tile_result>>

\* let start = find_first_inside_point(&grid); fill_green_tiles is called
\* with it when it is Some.
FindFirstInsidePoint ==
    /\ pc_tile = "find"
    /\ tile_result' = find_first_inside_point(tile_grid)
    /\ IF find_first_inside_point(tile_grid) = {}
       THEN pc_tile' = "find_none" /\ UNCHANGED tile_a
       ELSE pc_tile' = "fill_assert" /\ tile_a' = find_first_inside_point(tile_grid)
    /\ UNCHANGED <<tile_coords, tile_grid, tile_before, tile_b, tile_to_fill>>

NextTrace ==
    \/ ConnectTiles /\ UNCHANGED others_tile
    \/ FindFirstInsidePoint /\ UNCHANGED others_tile
    \/ FillAssert /\ UNCHANGED others_tile
    \/ FillLoop /\ UNCHANGED others_tile
    \/ FillReturn /\ UNCHANGED others_tile

SpecTrace == InitTrace /\ [][NextTrace]_vars

\* The returned point is an Empty cell off the loop and inside it by the
\* even-odd rule.
ReturnedPointIsInside ==
    pc_tile = "fill_assert" =>
        LET p == unwrap(tile_result)
        IN  /\ grid_get(tile_grid, p.y, p.x) = "Empty"
            /\ ~OnLoop(tile_coords, p)
            /\ InsideLoop(tile_coords, p)

\* The fill started from the returned point coloured no cell outside the loop.
NoGreenOutside ==
    pc_tile = "fill_returned" =>
        \A rc \in DOMAIN tile_grid.cells :
            tile_grid.cells[rc] = "Green" => RedOrGreen(tile_coords, Coords2D(rc[2], rc[1]))

\* C29: on a grid in which connect_red_tiles has traced the boundary of one
\* rectilinear polygon, a point returned by find_first_inside_point is an
\* Empty cell inside the polygon by the even-odd rule, and the flood fill
\* started from it colours no cell outside the polygon.
C29_ReturnedPointIsInsideThePolygon == ReturnedPointIsInside /\ NoGreenOutside

\* The starts the tests expect (diagnostic): (2, 1) on the second loop of
\* test_connect_red_tiles, whose picture is the first grid of
\* test_fill_green_tiles.
TestTraceResults ==
    (pc_tile = "fill_assert" /\ tile_coords = TestLoopConnect2
        /\ tile_grid.rows = 4 /\ tile_grid.cols = 4) =>
        /\ tile_grid = TestGridFill1
        /\ tile_result = {Coords2D(2, 1)}


\* On the compressed grid of solve_day09 (diagnostic, SpecDay09): the start
\* found there is inside the compressed loop.
CompressedStartIsInside ==
    (pc09 \in {"fill", "rects", "done", "panicked"} /\ start_coords # {}) =>
        LET p == unwrap(start_coords)
        IN  /\ ~OnLoop(compressed_coords.coords, p)
            /\ InsideLoop(compressed_coords.coords, p)

=============================================================================
